---------------------------- MODULE Spec2Model ----------------------------
(***************************************************************************)
(* A model of the SUIperCHAT streamer application's server side:           *)
(*   - the connection manager (ws_server/connection_manager.rs) and the    *)
(*     global connection counter (types.rs),                               *)
(*   - the per-client WebSocket session actor (ws_server/session.rs),      *)
(*   - the server lifecycle (ws_server/server_manager.rs),                 *)
(*   - the tunnel supervisor (ws_server/tunnel.rs).                        *)
(* A thread's step is a run of statements up to the next point at which    *)
(* another thread can observe or change what it works on; threads          *)
(* interleave between steps.                                               *)
(***************************************************************************)
EXTENDS Naturals, Integers, Sequences, FiniteSets, TLC

\* ------------------------------------------------------------------ bounds
NumSessions == 2     \* WebSocket connections that are ever opened
MaxLimit == 1        \* largest max_connections the operator configures
MaxRuns == 2         \* start_server calls that spawn a launcher thread
MaxLines == 2        \* lines the cloudflared child writes while start_tunnel reads
MaxFrames == 2       \* text and binary frames handled, all sessions together
HistWindow == 2      \* history limits and row counts explored on each side of the clamps

\* ------------------------------------------------------- program constants
HEARTBEAT_INTERVAL == 5
CLIENT_TIMEOUT == 10
HISTORY_DEFAULT_LIMIT == 50    \* session.rs:378 limit.unwrap_or(50); database.rs:210
HISTORY_MAX_LIMIT == 1000      \* database.rs:211-212
MAX_RESTART_ATTEMPTS == 3

None == "None"                      \* a free mutex, an absent string
NoneOpt == <<>>                     \* Option::None; Some(x) is <<x>>
Some(x) == <<x>>
Operator == 0                       \* the desktop shell's command thread
Sessions == 1..NumSessions          \* session s owns client id s (a fresh UUID)
Threads == Sessions \cup {Operator}
Runs == 1..MaxRuns                  \* run r is the r-th launcher thread and its runtime

VARIABLES
    \* --- connection manager and counter
    connections,        \* keys of the registry map
    CONNECTIONS_COUNT,  \* the global AtomicUsize
    max_connections,    \* the admission threshold
    app_handle,         \* TRUE when the manager's app_handle is Some
    max_lock,           \* "Operator" while that thread holds the max_connections mutex, else None
    global_lock,        \* likewise for the GLOBAL_CONNECTION_MANAGER mutex
    \* --- threads: sessions and the operator
    state,              \* session protocol state per session
    pc,                 \* position of each thread inside its handler
    client_info,        \* WsSession.client_info: NoneOpt or Some(client id)
    l_max, l_cnt,       \* add_client's locals max_conn and current_count
    rm_id,              \* remove_client's argument, per thread
    rm_from,            \* where remove_client was called from, per thread
    hb_ticks,           \* heartbeat intervals elapsed since WsSession.hb was refreshed
    cmd_result,         \* result of the operator's last command
    limit_result,       \* result of the last set_connection_limits command
    \* --- observations
    add_result,         \* what add_client returned to the session
    incs, decs,         \* increments / decrements of the counter made for each client id
    ever_registered,    \* the client id was inserted into the registry at some time
    was_active,         \* the session has been Active
    rejects             \* rejection messages sent to each session's client

VARIABLES
    \* --- AppState (state.rs, server_manager.rs)
    server_handle,      \* NoneOpt or Some(r): handles of the two listeners of run r
    runtime_handle,     \* NoneOpt or Some(r): handle of the Tokio runtime of run r
    host,               \* TRUE when host, port and obs_port are Some
    current_session_id, \* NoneOpt or Some(r): the session id generated by run r
    tunnel_info,        \* NoneOpt, Some(<<"Ok", r>>) or Some(<<"Err", r>>)
    db_pool,            \* TRUE when the database pool is Some
    \* --- launcher threads, their runtimes and tasks
    run_pc,             \* position of launcher thread r
    listeners,          \* the two listening sockets of run r
    tunnel_task,        \* the tunnel start task spawned by run_servers on runtime r
    child,              \* the cloudflared child started by that task
    stop_task, stop_target,         \* stop task on runtime r and the run whose listeners it stops
    end_task, end_target,           \* end_session task on runtime r and its session id
    stoptun_task, stoptun_target,   \* stop_tunnel task on runtime r and the run of its tunnel
    session_row,        \* the sessions table row of session id r: "none", "open", "ended"
    \* --- command thread inside start_server / stop_server
    ctl_pc,
    ctl_sh, ctl_rt,     \* stop_server's locals server_handles_option, runtime_handle_option
    \* --- observations
    life_result,        \* what the last start_server / stop_server returned
    last_event,         \* last server_status_updated event: <<is_running, tunnel_status>>
    runs_started,       \* launcher threads spawned so far
    stop_accepted       \* runs whose accepting listeners a stop_server call set out to stop

VARIABLES
    \* --- one TunnelInfo (tunnel.rs)
    process,            \* the child slot: None, or the state of the child in it
    new_child,          \* the child restart_process has spawned and not yet stored
    taken,              \* the child stop_tunnel has taken out of the slot
    is_running,         \* ProcessManager.is_running
    restart_attempts,   \* ProcessManager.restart_attempts
    should_stop,        \* TunnelInfo.should_stop
    mon_pc,             \* position of the health monitor task
    st_pc,              \* position of stop_tunnel
    \* --- observations
    exits_detected,     \* health checks that found the child gone
    restarts,           \* calls of restart_process
    gave_up,            \* the monitor logged "giving up"
    \* --- one start_tunnel call (tunnel.rs:305-657)
    ts_pc,              \* "idle", "reading" (inside url_extraction), "done"
    ts_child,           \* the child start_tunnel spawned and still owns: None, "alive", "exited", "killed"
    out_buf,            \* lines the child wrote to stdout that were not read yet
    err_buf,            \* the same for stderr
    written,            \* lines the child wrote so far
    url_shown,          \* the child has written a line with a tunnel URL
    ts_result           \* what start_tunnel returned: None, "Url", "UrlNotFound", "Timeout", "StdioError"

VARIABLES
    \* --- the background log reader of the newest cloudflared child (tunnel.rs:245-287,
    \* 447-487, 514-554)
    rd_task,            \* "none", "reading" (inside the select! loop), "ended" (left the loop)
    rd_pipe,            \* per stream of that child: "open", "eof" (the child closed it),
                        \* "error" (the next read fails)
    rd_read             \* lines the reader has logged

VARIABLES
    \* --- AppState network flags (state.rs:43-52) and the NAT probe task of run_servers
    external_ip,            \* NoneOpt or Some(address)
    global_ip_fetch_failed, \* AppState.global_ip_fetch_failed
    cgnat_detected,         \* AppState.cgnat_detected
    probe_task,             \* the probe task on runtime r: "none", "fetching", "stun", "done"
    probe_ip,               \* its local ip: NoneOpt or Some(address)
    \* --- observations
    probe_reply,            \* the last call of check_cgnat: NoneOpt or Some(<<public_ip, reply>>)
    probe_out               \* what that call returned: NoneOpt or Some(result)

VARIABLES
    \* --- one chat or superchat on its way from a viewer through the server (types.rs,
    \*     session.rs:159-323 and 573-601)
    cm_pc,              \* "made", "sent", "parsed", "handled", "read"
    cm_in,              \* the message the sending client built: <<kind, message>>
    cm_wire,            \* the JSON text it sent: NoneOpt or Some(json)
    cm_parsed,          \* what from_str::<ClientMessage> made of it: NoneOpt or Some(result)
    cm_row,             \* the DbMessage save_message_to_db built: NoneOpt or Some(row)
    cm_payload,         \* the JSON text handed to broadcast: NoneOpt or Some(json)
    cm_out              \* what a receiving client reads from the payload: NoneOpt or Some(result)

VARIABLES
    \* --- the actor mailbox of each session (session.rs:665-680)
    mailbox,            \* Broadcast messages, by the number of their broadcast call, waiting
    \* --- observations
    received            \* the payloads the session wrote to its client, in that order

VARIABLES
    \* --- AppState.wallet_address and one set_wallet_address command (commands/wallet.rs)
    wallet_address,     \* NoneOpt or Some(string)
    w_pc,               \* "idle", "called", "returned"
    w_arg,              \* the command's argument address
    \* --- observations
    w_before,           \* wallet_address when the command was called
    w_emitted,          \* whether the wallet_address_updated event could be emitted
    w_result            \* what the command returned

VARIABLES
    \* --- one history fetch on its way through persistence and the session
    \*     (database.rs:202-245, session.rs:377-424)
    pg_pc,              \* "idle", "asked", "fetched", "replied", "failed", "panicked"
    pg_table,           \* timestamps of the rows stored under the session id
    pg_limit,           \* the request's limit: NoneOpt or Some(i64)
    pg_before,          \* the request's before_timestamp: NoneOpt or Some(timestamp)
    pg_rows,            \* what get_messages_by_session_id returned
    \* --- observations
    pg_reply            \* the HistoryData written: NoneOpt or Some(<<messages, has_more>>)

VARIABLES
    \* --- frames, broadcast, persistence and history (session.rs, connection_manager.rs)
    conn_lock,          \* Some(session) while its broadcast holds the connections mutex
    sess_sid,           \* WsSession.current_session_id, per session
    bc_todo,            \* entries the sender's broadcast loop has still to visit
    save,               \* save tasks spawned and not yet finished
    hist,               \* the history fetch a session has in flight: NoneOpt or Some(<<limit, rows>>)
    \* --- observations
    frames,             \* text and binary frames handled so far, all sessions together
    since_frame,        \* heartbeat intervals elapsed since the session's last inbound frame
    errors_sent,        \* error responses sent to each session's client
    bc_reg,             \* the registry as the sender's last broadcast found it
    bc_attempts,           \* sessions the sender's last broadcast called do_send for
    delivered,          \* those of them whose mailbox took the message
    saved_rows,         \* rows written to the messages table
    handed,             \* <<session_id, state of its row at receipt>> of the messages handed to the save
    chats,              \* Chat and Superchat frames handled, per sending session
    bcasts,             \* calls of ConnectionManager::broadcast, per sending session
    last_reply          \* the last history reply sent to each session's client

connRest == <<connections, CONNECTIONS_COUNT, max_connections, max_lock, global_lock, state,
              pc, client_info, l_max, l_cnt, rm_id, rm_from, hb_ticks, cmd_result, limit_result,
              add_result, incs, decs, ever_registered, was_active, rejects>>

connVars == <<app_handle, connRest>>

lifeVars == <<server_handle, runtime_handle, host, current_session_id, tunnel_info, db_pool,
              run_pc, listeners, tunnel_task, child, stop_task, stop_target, end_task,
              end_target, stoptun_task, stoptun_target, session_row, ctl_pc, ctl_sh, ctl_rt,
              life_result, last_event, runs_started, stop_accepted>>

readerVars == <<rd_task, rd_pipe, rd_read>>

startVars == <<ts_pc, ts_child, out_buf, err_buf, written, url_shown, ts_result, readerVars>>

probeVars == <<external_ip, global_ip_fetch_failed, cgnat_detected, probe_task, probe_ip,
               probe_reply, probe_out>>

codecVars == <<cm_pc, cm_in, cm_wire, cm_parsed, cm_row, cm_payload, cm_out>>

\* Variables outside the four subsystems of the server.
fifoVars == <<mailbox, received>>

walletVars == <<wallet_address, w_pc, w_arg, w_before, w_emitted, w_result>>

pageVars == <<pg_pc, pg_table, pg_limit, pg_before, pg_rows, pg_reply>>

moreVars == <<pageVars>>

sideRest == <<codecVars, fifoVars, walletVars, moreVars>>
sideButFifo == <<probeVars, codecVars, walletVars, moreVars>>
sideVars == <<probeVars, sideRest>>

tunOwn == <<process, new_child, taken, is_running, restart_attempts, should_stop, mon_pc,
            st_pc, exits_detected, restarts, gave_up, startVars>>

tunVars == <<tunOwn, sideVars>>

\* Variables of the other subsystems, which the connection manager never touches.
msgVars == <<conn_lock, sess_sid, bc_todo, save, hist, frames, since_frame,
             errors_sent, bc_reg, bc_attempts, delivered, saved_rows, handed, chats, bcasts, last_reply>>

\* The messaging variables a heartbeat tick, a ping, a pong or a close frame leaves alone.
msgButSince == <<conn_lock, sess_sid, bc_todo, save, hist, frames, errors_sent,
                 bc_reg, bc_attempts, delivered, saved_rows, handed, chats, bcasts, last_reply>>

otherThanConn == <<lifeVars, tunVars, msgVars>>

allButCodec == <<connVars, lifeVars, tunOwn, msgVars, probeVars, fifoVars, walletVars, moreVars>>
allButWallet == <<connVars, lifeVars, tunOwn, msgVars, probeVars, fifoVars, codecVars, moreVars>>
allButPage == <<connVars, lifeVars, tunOwn, msgVars, probeVars, fifoVars, codecVars, walletVars>>

vars == <<connVars, lifeVars, tunVars, msgVars>>

\* ------------------------------------------------------------ connection manager

\* connection_manager.rs:113  if current_count >= max_conn { return false }
AtLimitStrict(cnt, max) == cnt > max
AtLimit(cnt, max) == cnt >= max

\* connection_manager.rs:168  removed = connections.remove(client_id).is_some()
RemovedAlways(id) == TRUE
Removed(id) == id \in connections

\* A thread is inside add_client or remove_client.
InManagerCall(t) == pc[t] \in {"add_cnt", "add_check", "add_insert", "add_emit",
                                "rm", "rm_dec", "rm_emit"}

\* types.rs:41-54
increment_connections == CONNECTIONS_COUNT' = CONNECTIONS_COUNT + 1
decrement_connections == CONNECTIONS_COUNT' = CONNECTIONS_COUNT - 1

\* emit_connections_updated -> get_connections_info needs the max_connections mutex
\* (get_max_connections) and the connections mutex (get_all_clients) when an app handle
\* is configured.
CanEmit(t) == app_handle => (max_lock = None /\ conn_lock = NoneOpt)

ConnInit ==
    /\ connections = {}
    /\ CONNECTIONS_COUNT = 0
    /\ max_lock = None
    /\ global_lock = None
    /\ state = [s \in Sessions |-> "Idle"]
    /\ pc = [t \in Threads |-> "idle"]
    /\ client_info = [s \in Sessions |-> NoneOpt]
    /\ l_max = [s \in Sessions |-> 0]
    /\ l_cnt = [s \in Sessions |-> 0]
    /\ rm_id = [t \in Threads |-> 0]
    /\ rm_from = [t \in Threads |-> None]
    /\ hb_ticks = [s \in Sessions |-> 0]
    /\ cmd_result = NoneOpt
    /\ limit_result = None
    /\ add_result = [s \in Sessions |-> NoneOpt]
    /\ incs = [s \in Sessions |-> 0]
    /\ decs = [s \in Sessions |-> 0]
    /\ ever_registered = [s \in Sessions |-> FALSE]
    /\ was_active = [s \in Sessions |-> FALSE]
    /\ rejects = [s \in Sessions |-> 0]

\* session.rs:54-64 WsSession::new: nothing was received, sent, broadcast or saved.
MsgIdle ==
    /\ conn_lock = NoneOpt
    /\ bc_todo = [s \in Sessions |-> {}]
    /\ save = 0
    /\ hist = [s \in Sessions |-> NoneOpt]
    /\ frames = 0
    /\ since_frame = [s \in Sessions |-> 0]
    /\ errors_sent = [s \in Sessions |-> <<>>]
    /\ bc_reg = [s \in Sessions |-> {}]
    /\ bc_attempts = [s \in Sessions |-> {}]
    /\ delivered = [s \in Sessions |-> {}]
    /\ saved_rows = 0
    /\ handed = {}
    /\ chats = [s \in Sessions |-> 0]
    /\ bcasts = [s \in Sessions |-> 0]
    /\ last_reply = [s \in Sessions |-> NoneOpt]

\* session.rs:54-64: no session was started yet, none has a session id.
MsgInit ==
    /\ MsgIdle
    /\ sess_sid = [s \in Sessions |-> NoneOpt]

\* ---------------------------------------------------------------- sessions

\* session.rs:648-664 create_ws_session (global::get_manager locks the global manager),
\* ws::start, the entry of started() (session.rs:462-503, the session id of AppState is
\* copied at 465-471 when the app handle is there) and the first statement of
\* add_client, connection_manager.rs:104  let max_conn = self.get_max_connections();
Connect(s) ==
    /\ state[s] = "Idle"
    /\ \E r \in Runs : listeners[r] = "accepting"
    /\ global_lock = None
    /\ max_lock = None
    /\ state' = [state EXCEPT ![s] = "Connecting"]
    /\ l_max' = [l_max EXCEPT ![s] = max_connections]
    /\ pc' = [pc EXCEPT ![s] = "add_cnt"]
    /\ hb_ticks' = [hb_ticks EXCEPT ![s] = 0]
    /\ sess_sid' = [sess_sid EXCEPT ![s] = IF app_handle THEN current_session_id ELSE NoneOpt]
    /\ UNCHANGED <<connections, CONNECTIONS_COUNT, max_connections, app_handle, max_lock,
                   global_lock, client_info, l_cnt, rm_id, rm_from, cmd_result, limit_result,
                   add_result, incs, decs, ever_registered, was_active, rejects>>
    /\ UNCHANGED <<lifeVars, tunVars, conn_lock, bc_todo, save, hist, frames, since_frame,
                   errors_sent, bc_reg, bc_attempts, delivered, saved_rows, handed, chats, bcasts,
                   last_reply>>

\* connection_manager.rs:105  let current_count = get_connections_count();
AddReadCount(s) ==
    /\ pc[s] = "add_cnt"
    /\ l_cnt' = [l_cnt EXCEPT ![s] = CONNECTIONS_COUNT]
    /\ pc' = [pc EXCEPT ![s] = "add_check"]
    /\ UNCHANGED <<connections, CONNECTIONS_COUNT, max_connections, app_handle, max_lock,
                   global_lock, state, client_info, l_max, rm_id, rm_from, hb_ticks,
                   cmd_result, limit_result, add_result, incs, decs, ever_registered, was_active,
                   rejects>>
    /\ UNCHANGED otherThanConn

\* session.rs:507-516: add_client returned false; one error text, ctx.close, ctx.stop, return.
\* The heartbeat is not started.
RejectedStateNoStop == "Active"
RejectedState == "Closing"

\* connection_manager.rs:113-120 (return false) followed by session.rs:507-516.
AddReject(s) ==
    /\ pc[s] = "add_check"
    /\ AtLimit(l_cnt[s], l_max[s])
    /\ add_result' = [add_result EXCEPT ![s] = Some(FALSE)]
    /\ rejects' = [rejects EXCEPT ![s] = @ + 1]
    /\ state' = [state EXCEPT ![s] = RejectedState]
    /\ was_active' = [was_active EXCEPT ![s] = @ \/ RejectedState = "Active"]
    /\ pc' = [pc EXCEPT ![s] = IF RejectedState = "Closing" THEN "stopped" ELSE "idle"]
    /\ l_max' = [l_max EXCEPT ![s] = 0]
    /\ l_cnt' = [l_cnt EXCEPT ![s] = 0]
    /\ UNCHANGED <<connections, CONNECTIONS_COUNT, max_connections, app_handle, max_lock,
                   global_lock, client_info, rm_id, rm_from, hb_ticks, cmd_result, limit_result, incs,
                   decs, ever_registered>>
    /\ UNCHANGED otherThanConn

\* connection_manager.rs:124  increment_connections();
AddIncrement(s) ==
    /\ pc[s] = "add_check"
    /\ ~AtLimit(l_cnt[s], l_max[s])
    /\ increment_connections
    /\ incs' = [incs EXCEPT ![s] = @ + 1]
    /\ pc' = [pc EXCEPT ![s] = "add_insert"]
    /\ l_max' = [l_max EXCEPT ![s] = 0]
    /\ l_cnt' = [l_cnt EXCEPT ![s] = 0]
    /\ UNCHANGED <<connections, max_connections, app_handle, max_lock, global_lock, state,
                   client_info, rm_id, rm_from, hb_ticks, cmd_result, limit_result, add_result, decs,
                   ever_registered, was_active, rejects>>
    /\ UNCHANGED otherThanConn

\* connection_manager.rs:133-143  connections.insert(client_id, entry);
AddInsert(s) ==
    /\ pc[s] = "add_insert"
    /\ conn_lock = NoneOpt
    /\ connections' = connections \cup {s}
    /\ ever_registered' = [ever_registered EXCEPT ![s] = TRUE]
    /\ pc' = [pc EXCEPT ![s] = "add_emit"]
    /\ UNCHANGED <<CONNECTIONS_COUNT, max_connections, app_handle, max_lock, global_lock,
                   state, client_info, l_max, l_cnt, rm_id, rm_from, hb_ticks, cmd_result, limit_result,
                   add_result, incs, decs, was_active, rejects>>
    /\ UNCHANGED otherThanConn

\* connection_manager.rs:147-151 (emit, return true); session.rs:503-506 and 530-531:
\* client_info is set and the heartbeat is started.
AddEmit(s) ==
    /\ pc[s] = "add_emit"
    /\ CanEmit(s)
    /\ add_result' = [add_result EXCEPT ![s] = Some(TRUE)]
    /\ client_info' = [client_info EXCEPT ![s] = Some(s)]
    /\ state' = [state EXCEPT ![s] = "Active"]
    /\ was_active' = [was_active EXCEPT ![s] = TRUE]
    /\ pc' = [pc EXCEPT ![s] = "idle"]
    /\ UNCHANGED <<connections, CONNECTIONS_COUNT, max_connections, app_handle, max_lock,
                   global_lock, l_max, l_cnt, rm_id, rm_from, hb_ticks, cmd_result, limit_result, incs,
                   decs, ever_registered, rejects>>
    /\ UNCHANGED otherThanConn

Receiving(s) == state[s] = "Active" /\ pc[s] = "idle"

\* session.rs:561-570  Pong / Ping: self.hb = Instant::now()
RecvPingPong(s) ==
    /\ Receiving(s)
    /\ hb_ticks[s] # 0
    /\ hb_ticks' = [hb_ticks EXCEPT ![s] = 0]
    /\ since_frame' = [since_frame EXCEPT ![s] = 0]
    /\ UNCHANGED <<connections, CONNECTIONS_COUNT, max_connections, app_handle, max_lock,
                   global_lock, state, pc, client_info, l_max, l_cnt, rm_id, rm_from,
                   cmd_result, limit_result, add_result, incs, decs, ever_registered, was_active,
                   rejects>>
    /\ UNCHANGED <<lifeVars, tunVars, msgButSince>>

\* session.rs:615-619  Close: ctx.close(reason); ctx.stop()
RecvStop(s) ==
    /\ Receiving(s)
    /\ state' = [state EXCEPT ![s] = "Closing"]
    /\ pc' = [pc EXCEPT ![s] = "stopped"]
    /\ hb_ticks' = [hb_ticks EXCEPT ![s] = 0]
    /\ since_frame' = [since_frame EXCEPT ![s] = 0]
    /\ UNCHANGED <<connections, CONNECTIONS_COUNT, max_connections, app_handle, max_lock,
                   global_lock, client_info, l_max, l_cnt, rm_id, rm_from, cmd_result, limit_result,
                   add_result, incs, decs, ever_registered, was_active, rejects>>
    /\ UNCHANGED <<lifeVars, tunVars, msgButSince>>

\* session.rs:620-625 Continuation, 628-634 protocol error: one error response, ctx.stop()
RecvErrorStop(s) ==
    /\ Receiving(s)
    /\ \E kind \in {"continuation", "protocol"} :
           errors_sent' = [errors_sent EXCEPT ![s] = Append(@, kind)]
    /\ state' = [state EXCEPT ![s] = "Closing"]
    /\ pc' = [pc EXCEPT ![s] = "stopped"]
    /\ hb_ticks' = [hb_ticks EXCEPT ![s] = 0]
    /\ since_frame' = [since_frame EXCEPT ![s] = 0]
    /\ UNCHANGED <<connections, CONNECTIONS_COUNT, max_connections, app_handle, max_lock,
                   global_lock, client_info, l_max, l_cnt, rm_id, rm_from, cmd_result, limit_result,
                   add_result, incs, decs, ever_registered, was_active, rejects>>
    /\ UNCHANGED <<lifeVars, tunVars, conn_lock, sess_sid, bc_todo, save, hist,
                   frames, bc_reg, bc_attempts, delivered, saved_rows, handed, chats, bcasts,
                   last_reply>>

\* The session's handler takes another text or binary frame.
FrameAllowed(s) == Receiving(s) /\ frames < MaxFrames

\* session.rs:572-574 and 599-605  a text frame that is no ClientMessage: one error
\* response, the session goes on.
AfterParseErrorStop(st) == "Closing"
AfterParseError(st) == st

RecvTextBad(s) ==
    /\ FrameAllowed(s)
    /\ frames' = frames + 1
    /\ errors_sent' = [errors_sent EXCEPT ![s] = Append(@, "parse")]
    /\ since_frame' = [since_frame EXCEPT ![s] = 0]
    /\ state' = [state EXCEPT ![s] = AfterParseError(@)]
    /\ UNCHANGED <<connections, CONNECTIONS_COUNT, max_connections, app_handle, max_lock,
                   global_lock, client_info, l_max, l_cnt, pc, rm_id, rm_from, hb_ticks,
                   cmd_result, limit_result, add_result, incs, decs, ever_registered, was_active,
                   rejects>>
    /\ UNCHANGED <<lifeVars, tunVars, conn_lock, sess_sid, bc_todo, save, hist, bc_reg,
                   bc_attempts, delivered, saved_rows, handed, chats, bcasts, last_reply>>

\* session.rs:608-613  a binary frame: one error response, the session goes on.
RecvBinary(s) ==
    /\ FrameAllowed(s)
    /\ frames' = frames + 1
    /\ errors_sent' = [errors_sent EXCEPT ![s] = Append(@, "binary")]
    /\ since_frame' = [since_frame EXCEPT ![s] = 0]
    /\ UNCHANGED <<connVars, lifeVars, tunVars, conn_lock, sess_sid, bc_todo, save,
                   hist, bc_reg, bc_attempts, delivered, saved_rows, handed, chats, bcasts, last_reply>>

\* ------------------------------------------------ chat, broadcast and persistence

\* session.rs:60 and 655-661: a session holds the pool handle of AppState when the app
\* handle is there, else its own empty one.
SessionPool == app_handle /\ db_pool

\* session.rs:590-598: save_message_to_db returns, whatever became of the save, and
\* broadcast_message is called next.
AfterSaveOnlyWithPool(pool) == IF pool THEN "bc" ELSE "idle"
AfterSave(pool) == "bc"

\* session.rs:183-190 and 204-232: the DbMessage carries the session's copy of the session
\* id, None included; with it is noted what the sessions table holds for that id now.
HandedMessage(sid) == <<sid, IF sid = NoneOpt THEN "none" ELSE session_row[sid[1]]>>

\* session.rs:590-598 a Chat or Superchat frame: save_message_to_db (159-250) spawns the
\* save when the pool handle holds a pool; broadcast_message (260-268, 286-294) updates
\* the sender's registry entry under the connections mutex.
RecvChat(s) ==
    /\ FrameAllowed(s)
    /\ conn_lock = NoneOpt
    /\ frames' = frames + 1
    /\ chats' = [chats EXCEPT ![s] = @ + 1]
    /\ since_frame' = [since_frame EXCEPT ![s] = 0]
    /\ save' = IF SessionPool THEN save + 1 ELSE save
    /\ handed' = IF SessionPool THEN handed \cup {HandedMessage(sess_sid[s])} ELSE handed
    /\ pc' = [pc EXCEPT ![s] = AfterSave(SessionPool)]
    /\ UNCHANGED <<connections, CONNECTIONS_COUNT, max_connections, app_handle, max_lock,
                   global_lock, state, client_info, l_max, l_cnt, rm_id, rm_from, hb_ticks,
                   cmd_result, limit_result, add_result, incs, decs, ever_registered, was_active,
                   rejects>>
    /\ UNCHANGED <<lifeVars, tunVars, conn_lock, sess_sid, bc_todo, hist,
                   errors_sent, bc_reg, bc_attempts, delivered, saved_rows, bcasts,
                   last_reply>>

\* connection_manager.rs:304  let connections = self.connections.lock().unwrap();
BroadcastLock(s) ==
    /\ pc[s] = "bc"
    /\ conn_lock = NoneOpt
    /\ conn_lock' = Some(s)
    /\ bcasts' = [bcasts EXCEPT ![s] = @ + 1]
    /\ bc_todo' = [bc_todo EXCEPT ![s] = connections]
    /\ bc_reg' = [bc_reg EXCEPT ![s] = connections]
    /\ bc_attempts' = [bc_attempts EXCEPT ![s] = {}]
    /\ delivered' = [delivered EXCEPT ![s] = {}]
    /\ pc' = [pc EXCEPT ![s] = "bc_loop"]
    /\ UNCHANGED <<connections, CONNECTIONS_COUNT, max_connections, app_handle, max_lock,
                   global_lock, state, client_info, l_max, l_cnt, rm_id, rm_from, hb_ticks,
                   cmd_result, limit_result, add_result, incs, decs, ever_registered, was_active,
                   rejects>>
    /\ UNCHANGED <<lifeVars, tunVars, sess_sid, save, hist, frames, since_frame,
                   errors_sent, saved_rows, handed, chats, last_reply>>

\* connection_manager.rs:305-308  the loop goes on to the next entry whatever do_send did.
RemainingAbortOnFailure(todo, r, ok) == IF ok THEN todo \ {r} ELSE {}
Remaining(todo, r, ok) == todo \ {r}

\* The broadcast calls made so far; the one in progress is the last of them.
RECURSIVE SumUpTo(_, _)
SumUpTo(f, n) == IF n = 0 THEN 0 ELSE f[n] + SumUpTo(f, n - 1)
BroadcastCalls == SumUpTo(bcasts, NumSessions)

\* connection_manager.rs:307  do_send puts the message at the end of the recipient's
\* mailbox, which the actor empties from the front.
EnqueueFirst(queue, m) == <<m>> \o queue
Enqueue(queue, m) == Append(queue, m)

\* connection_manager.rs:305-308  entry.addr.do_send(Broadcast(..)) for one entry; do_send
\* returns nothing: a full or closed mailbox drops the message.
BroadcastSend(s) ==
    /\ pc[s] = "bc_loop"
    /\ \E r \in bc_todo[s], ok \in BOOLEAN :
        /\ bc_todo' = [bc_todo EXCEPT ![s] = Remaining(@, r, ok)]
        /\ bc_attempts' = [bc_attempts EXCEPT ![s] = @ \cup {r}]
        /\ delivered' = [delivered EXCEPT ![s] = IF ok THEN @ \cup {r} ELSE @]
        /\ mailbox' = [mailbox EXCEPT ![r] = IF ok THEN Enqueue(@, BroadcastCalls) ELSE @]
    /\ UNCHANGED <<connVars, lifeVars, tunOwn, sideButFifo, received, conn_lock, sess_sid,
                   save, hist, frames, since_frame, errors_sent, bc_reg, saved_rows, handed,
                   chats, bcasts, last_reply>>

\* session.rs:673-680  Handler<Broadcast>::handle: the actor takes the next Broadcast
\* from its mailbox and writes it to its client with ctx.text.
HandleBroadcast(s) ==
    /\ Receiving(s)
    /\ mailbox[s] # <<>>
    /\ received' = [received EXCEPT ![s] = Append(@, Head(mailbox[s]))]
    /\ mailbox' = [mailbox EXCEPT ![s] = Tail(@)]
    /\ UNCHANGED <<connVars, lifeVars, tunOwn, msgVars, sideButFifo>>

\* connection_manager.rs:309  the guard is dropped; handle() returns.
BroadcastDone(s) ==
    /\ pc[s] = "bc_loop"
    /\ bc_todo[s] = {}
    /\ conn_lock' = NoneOpt
    /\ pc' = [pc EXCEPT ![s] = "idle"]
    /\ UNCHANGED <<connections, CONNECTIONS_COUNT, max_connections, app_handle, max_lock,
                   global_lock, state, client_info, l_max, l_cnt, rm_id, rm_from, hb_ticks,
                   cmd_result, limit_result, add_result, incs, decs, ever_registered, was_active,
                   rejects>>
    /\ UNCHANGED <<lifeVars, tunVars, sess_sid, bc_todo, save, hist, frames,
                   since_frame, errors_sent, bc_reg, bc_attempts, delivered, saved_rows, handed,
                   chats, bcasts, last_reply>>

\* session.rs:238-243  the spawned save_message_db returned Ok: the row is written.
SaveDone ==
    /\ save > 0
    /\ save' = save - 1
    /\ saved_rows' = saved_rows + 1
    /\ UNCHANGED <<connVars, lifeVars, tunVars, conn_lock, sess_sid, bc_todo, hist,
                   frames, since_frame, errors_sent, bc_reg, bc_attempts, delivered, handed,
                   chats,
                   bcasts, last_reply>>

\* session.rs:244-248  the spawned save_message_db returned Err: the error is logged.
SaveFails ==
    /\ save > 0
    /\ save' = save - 1
    /\ UNCHANGED <<connVars, lifeVars, tunVars, conn_lock, sess_sid, bc_todo, hist,
                   frames, since_frame, errors_sent, bc_reg, bc_attempts, delivered,
                   saved_rows, handed, chats, bcasts, last_reply>>

\* -------------------------------------------------------------------- history

Min(a, b) == IF a < b THEN a ELSE b

\* session.rs:378  let safe_limit = limit.unwrap_or(50);
SessionLimit(limit) == IF limit = NoneOpt THEN HISTORY_DEFAULT_LIMIT ELSE limit[1]

\* database.rs:209-215  the limit the query is built with.
QueryLimit(limit) ==
    IF limit <= 0 THEN HISTORY_DEFAULT_LIMIT
    ELSE IF limit > HISTORY_MAX_LIMIT THEN HISTORY_MAX_LIMIT
    ELSE limit

\* database.rs:230-235  ORDER BY timestamp DESC LIMIT safe_limit + 1, out of n matching rows.
RowsFetched(limit, n) == Min(n, QueryLimit(limit) + 1)

\* session.rs:390-391  let has_more = messages.len() as i64 > safe_limit;
HasMore(limit, n) == RowsFetched(SessionLimit(limit), n) > SessionLimit(limit)

\* session.rs:393-398  the last fetched row is dropped when has_more is set.
ReplyCount(limit, n) ==
    IF HasMore(limit, n) THEN RowsFetched(SessionLimit(limit), n) - 1
    ELSE RowsFetched(SessionLimit(limit), n)

\* types.rs ClientMessage::GetHistory: the limits a client sends (an Option<i64>) and the
\* numbers of rows the session has in the messages table, around zero, the default and
\* the maximum.
HistLimits ==
    {NoneOpt} \cup {Some(k) : k \in (-1 .. HistWindow)
                                \cup (HISTORY_MAX_LIMIT .. HISTORY_MAX_LIMIT + HistWindow - 1)}
HistRows ==
    (0 .. HistWindow + 1) \cup (HISTORY_DEFAULT_LIMIT .. HISTORY_DEFAULT_LIMIT + 1)
        \cup (HISTORY_MAX_LIMIT .. HISTORY_MAX_LIMIT + HistWindow)
SmallLimits == {NoneOpt, Some(1)}
SmallRows == 0 .. 2

\* session.rs:577-589 a GetHistory frame, handle_get_history 334-448: without a session
\* id (341-351) or a pool (366-374) an error goes to the sender; otherwise the fetch is
\* spawned on the session's own context (437-447).
RecvGetHistory(s, limit) ==
    /\ FrameAllowed(s)
    /\ hist[s] = NoneOpt
    /\ frames' = frames + 1
    /\ since_frame' = [since_frame EXCEPT ![s] = 0]
    /\ IF sess_sid[s] # NoneOpt /\ SessionPool
       THEN /\ hist' = [hist EXCEPT ![s] = Some(limit)]
            /\ UNCHANGED errors_sent
       ELSE /\ errors_sent' = [errors_sent EXCEPT ![s] = Append(@, "history")]
            /\ UNCHANGED hist
    /\ UNCHANGED <<connVars, lifeVars, tunVars, conn_lock, sess_sid, bc_todo, save,
                   bc_reg, bc_attempts, delivered, saved_rows, handed, chats, bcasts, last_reply>>

\* session.rs:439-446  the result of the fetch is written with ctx.text on the context
\* of the session that spawned it.
HistoryRecipientsAll(s) == connections
HistoryRecipients(s) == {s}

\* session.rs:389-424 and 440-441  the fetch returned n rows' worth of matches: the
\* HistoryData reply is written to the requesting session's context.
HistoryReply(s, n) ==
    /\ Receiving(s)
    /\ hist[s] # NoneOpt
    /\ ReplyCount(hist[s][1], n) >= 0
    /\ last_reply' = [r \in Sessions |->
                        IF r \in HistoryRecipients(s)
                        THEN Some(<<hist[s][1], n, ReplyCount(hist[s][1], n),
                                    HasMore(hist[s][1], n)>>)
                        ELSE last_reply[r]]
    /\ hist' = [hist EXCEPT ![s] = NoneOpt]
    /\ UNCHANGED <<connVars, lifeVars, tunVars, conn_lock, sess_sid, bc_todo, save,
                   frames, since_frame, errors_sent, bc_reg, bc_attempts, delivered,
                   saved_rows, handed, chats, bcasts>>

\* session.rs:392-396  a negative limit and no row: has_more is set (0 > limit) and
\* messages.len() - 1 overflows, or is an out-of-range slice end: the future panics
\* inside the actor's context and nothing is written to the client.
HistoryPanics(s, n) ==
    /\ Receiving(s)
    /\ hist[s] # NoneOpt
    /\ ReplyCount(hist[s][1], n) < 0
    /\ hist' = [hist EXCEPT ![s] = NoneOpt]
    /\ state' = [state EXCEPT ![s] = "Panicked"]
    /\ UNCHANGED <<connections, CONNECTIONS_COUNT, max_connections, app_handle, max_lock,
                   global_lock, pc, client_info, l_max, l_cnt, rm_id, rm_from, hb_ticks,
                   cmd_result, limit_result, add_result, incs, decs, ever_registered,
                   was_active, rejects>>
    /\ UNCHANGED <<lifeVars, tunVars, conn_lock, sess_sid, bc_todo, save,
                   frames, since_frame, errors_sent, bc_reg, bc_attempts, delivered,
                   saved_rows, handed, chats, bcasts, last_reply>>

\* session.rs:426-429 and 442-445  the fetch failed: an error goes to the requester.
HistoryFails(s) ==
    /\ Receiving(s)
    /\ hist[s] # NoneOpt
    /\ errors_sent' = [errors_sent EXCEPT ![s] = Append(@, "history")]
    /\ hist' = [hist EXCEPT ![s] = NoneOpt]
    /\ UNCHANGED <<connVars, lifeVars, tunVars, conn_lock, sess_sid, bc_todo, save,
                   frames, since_frame, bc_reg, bc_attempts, delivered, saved_rows, handed, chats,
                   bcasts, last_reply>>

\* session.rs:107  Instant::now().duration_since(act.hb) > CLIENT_TIMEOUT, evaluated at the
\* k-th tick after the last refresh: the elapsed time lies in ((k-1)*5s, k*5s].
TimedOut(k) == (k - 1) * HEARTBEAT_INTERVAL >= CLIENT_TIMEOUT

\* session.rs:105-124  the run_interval closure
HbTick(s) ==
    /\ Receiving(s)
    /\ LET k == hb_ticks[s] + 1 IN
       IF TimedOut(k)
       THEN /\ pc' = [pc EXCEPT ![s] = "rm"]      \* client_info is Some: remove_client
            /\ rm_id' = [rm_id EXCEPT ![s] = client_info[s][1]]
            /\ rm_from' = [rm_from EXCEPT ![s] = "hb"]
            /\ hb_ticks' = [hb_ticks EXCEPT ![s] = 0]
            /\ since_frame' = [since_frame EXCEPT ![s] = 0]
       ELSE /\ hb_ticks' = [hb_ticks EXCEPT ![s] = k]    \* ctx.ping
            /\ since_frame' = [since_frame EXCEPT ![s] = @ + 1]
            /\ UNCHANGED <<pc, rm_id, rm_from>>
    /\ UNCHANGED <<connections, CONNECTIONS_COUNT, max_connections, app_handle, max_lock,
                   global_lock, state, client_info, l_max, l_cnt, cmd_result, limit_result, add_result,
                   incs, decs, ever_registered, was_active, rejects>>
    /\ UNCHANGED <<lifeVars, tunVars, msgButSince>>

\* session.rs:540-550  stopped(): remove_client when client_info is Some
Stopped(s) ==
    /\ pc[s] = "stopped"
    /\ IF client_info[s] = NoneOpt
       THEN /\ state' = [state EXCEPT ![s] = "Closed"]
            /\ pc' = [pc EXCEPT ![s] = "done"]
            /\ UNCHANGED <<rm_id, rm_from>>
       ELSE /\ pc' = [pc EXCEPT ![s] = "rm"]
            /\ rm_id' = [rm_id EXCEPT ![s] = client_info[s][1]]
            /\ rm_from' = [rm_from EXCEPT ![s] = "stopped"]
            /\ UNCHANGED state
    /\ UNCHANGED <<connections, CONNECTIONS_COUNT, max_connections, app_handle, max_lock,
                   global_lock, client_info, l_max, l_cnt, hb_ticks, cmd_result, limit_result,
                   add_result, incs, decs, ever_registered, was_active, rejects>>
    /\ UNCHANGED otherThanConn

\* What the caller of remove_client does when it returns `result`.
\*   "hb":         session.rs:118  ctx.stop()
\*   "stopped":    session.rs:550  the actor is gone
\*   "disconnect": connection_manager.rs:383-386, connection.rs:99-100
RemoveReturn(t, result) ==
    /\ rm_id' = [rm_id EXCEPT ![t] = IF rm_from[t] = "disconnect" THEN @ ELSE 0]
    /\ rm_from' = [rm_from EXCEPT ![t] = None]
    /\ CASE rm_from[t] = "hb" ->
            /\ state' = [state EXCEPT ![t] = "Closing"]
            /\ pc' = [pc EXCEPT ![t] = "stopped"]
            /\ UNCHANGED <<global_lock, cmd_result, limit_result>>
         [] rm_from[t] = "stopped" ->
            /\ state' = [state EXCEPT ![t] = "Closed"]
            /\ pc' = [pc EXCEPT ![t] = "done"]
            /\ UNCHANGED <<global_lock, cmd_result, limit_result>>
         [] OTHER ->
            /\ pc' = [pc EXCEPT ![t] = "idle"]
            /\ global_lock' = None
            /\ cmd_result' = Some(result)
            /\ UNCHANGED limit_result
            /\ UNCHANGED state

\* connection_manager.rs:166-169, and 177-179 when nothing was removed
RemoveLookup(t) ==
    /\ pc[t] = "rm"
    /\ conn_lock = NoneOpt
    /\ IF Removed(rm_id[t])
       THEN /\ connections' = connections \ {rm_id[t]}
            /\ pc' = [pc EXCEPT ![t] = "rm_dec"]
            /\ UNCHANGED <<state, global_lock, cmd_result, limit_result, rm_id, rm_from>>
       ELSE /\ RemoveReturn(t, FALSE)
            /\ UNCHANGED connections
    /\ UNCHANGED <<CONNECTIONS_COUNT, max_connections, app_handle, max_lock, client_info,
                   l_max, l_cnt, hb_ticks, add_result, incs, decs, ever_registered,
                   was_active, rejects>>
    /\ UNCHANGED otherThanConn

\* connection_manager.rs:173  decrement_connections();
RemoveDecrement(t) ==
    /\ pc[t] = "rm_dec"
    /\ decrement_connections
    /\ decs' = [decs EXCEPT ![rm_id[t]] = @ + 1]
    /\ pc' = [pc EXCEPT ![t] = "rm_emit"]
    /\ UNCHANGED <<connections, max_connections, app_handle, max_lock, global_lock, state,
                   client_info, l_max, l_cnt, rm_id, rm_from, hb_ticks, cmd_result, limit_result,
                   add_result, incs, ever_registered, was_active, rejects>>
    /\ UNCHANGED otherThanConn

\* connection_manager.rs:175-176  emit_connections_updated(); true
RemoveEmit(t) ==
    /\ pc[t] = "rm_emit"
    /\ CanEmit(t)
    /\ RemoveReturn(t, TRUE)
    /\ UNCHANGED <<connections, CONNECTIONS_COUNT, max_connections, app_handle, max_lock,
                   client_info, l_max, l_cnt, hb_ticks, add_result, incs, decs,
                   ever_registered, was_active, rejects>>
    /\ UNCHANGED otherThanConn

\* ---------------------------------------------------------------- operator

\* connection.rs:94-101, connection_manager.rs:383-386: the global manager stays locked
\* for the whole remove_client call.
DisconnectClient(id) ==
    /\ pc[Operator] = "idle"
    /\ global_lock = None
    /\ global_lock' = "Operator"
    /\ pc' = [pc EXCEPT ![Operator] = "rm"]
    /\ rm_id' = [rm_id EXCEPT ![Operator] = id]
    /\ rm_from' = [rm_from EXCEPT ![Operator] = "disconnect"]
    /\ cmd_result' = NoneOpt
    /\ UNCHANGED limit_result
    /\ UNCHANGED <<connections, CONNECTIONS_COUNT, max_connections, app_handle, max_lock,
                   state, client_info, l_max, l_cnt, hb_ticks, add_result, incs, decs,
                   ever_registered, was_active, rejects>>
    /\ UNCHANGED otherThanConn

\* The limits the operator or a caller of the manager asks for; usize has no negatives.
LimitArgs == 0 .. MaxLimit

\* connection_manager.rs:362-364 global::set_max_connections locks the global manager;
\* 70-72 ConnectionManager::set_max_connections locks max_connections and stores max.
\* Neither looks at the value.
set_max_connections(max, next_pc) ==
    /\ pc[Operator] = "idle"
    /\ global_lock = None
    /\ max_lock = None
    /\ global_lock' = "Operator"
    /\ max_lock' = "Operator"
    /\ max_connections' = max
    /\ pc' = [pc EXCEPT ![Operator] = next_pc]
    /\ limit_result' = None
    /\ UNCHANGED <<connections, CONNECTIONS_COUNT, app_handle, state, client_info, l_max,
                   l_cnt, rm_id, rm_from, hb_ticks, cmd_result, add_result, incs, decs,
                   ever_registered, was_active, rejects>>
    /\ UNCHANGED otherThanConn

\* connection.rs:114-126 the set_connection_limits command: a limit below 1 is refused
\* with an error, any other goes to ws_server::set_max_connections.
SetConnectionLimits(max) ==
    IF max < 1
    THEN /\ pc[Operator] = "idle"
         /\ limit_result' = "Err"
         /\ UNCHANGED <<connections, CONNECTIONS_COUNT, max_connections, app_handle,
                        max_lock, global_lock, state, pc, client_info, l_max, l_cnt, rm_id,
                        rm_from, hb_ticks, cmd_result, add_result, incs, decs,
                        ever_registered, was_active, rejects>>
         /\ UNCHANGED otherThanConn
    ELSE set_max_connections(max, "set_emit_cmd")

\* ws_server/mod.rs:19 re-exports set_max_connections: a call of the manager's own
\* function, connection_manager.rs:362-365 and 70-74, not through the command.
SetMaxConnections(max) == set_max_connections(max, "set_emit")

\* connection_manager.rs:73 emit_connections_updated() with the max_connections guard
\* still held, then the guards are dropped; connection.rs:125 Ok(()) for the command.
SetMaxEmit ==
    /\ pc[Operator] \in {"set_emit", "set_emit_cmd"}
    /\ CanEmit(Operator)
    /\ global_lock' = None
    /\ max_lock' = None
    /\ pc' = [pc EXCEPT ![Operator] = "idle"]
    /\ limit_result' = IF pc[Operator] = "set_emit_cmd" THEN "Ok" ELSE None
    /\ UNCHANGED <<connections, CONNECTIONS_COUNT, max_connections, app_handle, state,
                   client_info, l_max, l_cnt, rm_id, rm_from, hb_ticks, cmd_result,
                   add_result, incs, decs, ever_registered, was_active, rejects>>
    /\ UNCHANGED otherThanConn

\* connection_manager.rs:73 -> 281 -> 254 -> 81: with an app handle the emit locks
\* max_connections on the thread that holds its guard from line 71.  std::sync::Mutex
\* leaves that unspecified: the second lock never returns, it waits for ever (no step
\* of the model) or panics.  The panic unwinds through both guards, max_conn of line 71
\* and manager of line 363, and poisons both mutexes: every later lock().unwrap() of
\* either panics in its turn, which leaves the manager as it is.
SetMaxPanics ==
    /\ pc[Operator] \in {"set_emit", "set_emit_cmd"}
    /\ app_handle
    /\ max_lock = "Operator"
    /\ global_lock' = "Poisoned"
    /\ max_lock' = "Poisoned"
    /\ pc' = [pc EXCEPT ![Operator] = "idle"]
    /\ limit_result' = "Panic"
    /\ UNCHANGED <<connections, CONNECTIONS_COUNT, max_connections, app_handle, state,
                   client_info, l_max, l_cnt, rm_id, rm_from, hb_ticks, cmd_result,
                   add_result, incs, decs, ever_registered, was_active, rejects>>
    /\ UNCHANGED otherThanConn

\* ================================================================ server lifecycle
\* ws_server/server_manager.rs.  start_server and stop_server run on the desktop shell's
\* command thread; every successful start_server spawns a launcher thread that owns a
\* Tokio runtime; tasks spawned on a runtime die with it.

\* server_manager.rs:50  if handle_guard.is_some()
HandleStoredNever == FALSE
HandleStored == server_handle # NoneOpt

\* The Tokio runtime of run r exists: launch_server_runtime is between Runtime::new
\* (server_manager.rs:344) and the return of block_on (server_manager.rs:375).
RuntimeAlive(r) == run_pc[r] \in {"bind", "store_h", "store_sid", "create", "serving", "cleanup"}

\* server_manager.rs:867-892  tunnel_status of emit_server_status_with_tunnel
TunnelStatus(sh, ti) ==
    IF sh = NoneOpt THEN "Stopped"
    ELSE IF ti = NoneOpt THEN "Starting"
    ELSE IF ti[1][1] = "Ok" THEN "Running"
    ELSE "Failed"

\* server_manager.rs:860-954  the event emit_server_status_with_tunnel sends
StatusWithTunnel(sh, ti) == <<sh # NoneOpt, TunnelStatus(sh, ti)>>

\* server_manager.rs:279-310  the event emit_server_status sends
StatusPlain(running) == <<running, IF running THEN "Starting" ELSE "Stopped">>

\* The cloudflared child of run c is owned by a TunnelInfo (tunnel.rs:398 kill_on_drop):
\* it lives while AppState.tunnel_info, the health monitor task or a pending stop_tunnel
\* task still holds that TunnelInfo.
Held(c, ti, st, stt, rpc) ==
    \/ ti = Some(<<"Ok", c>>)
    \/ rpc[c] \in {"bind", "store_h", "store_sid", "create", "serving", "cleanup"}
    \/ \E rt \in Runs : st[rt] = "pending" /\ stt[rt] = c

Reap(ch, ti, st, stt, rpc) ==
    [c \in Runs |-> IF ch[c] = "alive" /\ ~Held(c, ti, st, stt, rpc) THEN "none" ELSE ch[c]]

\* Tasks of runtime r that have not finished are dropped with the runtime.
Cancel(task, r) == [task EXCEPT ![r] = "none"]
Forget(target, r) == [target EXCEPT ![r] = 0]

LifeInit ==
    /\ server_handle = NoneOpt
    /\ runtime_handle = NoneOpt
    /\ host = FALSE
    /\ current_session_id = NoneOpt
    /\ tunnel_info = NoneOpt
    /\ run_pc = [r \in Runs |-> "unborn"]
    /\ listeners = [r \in Runs |-> "unbound"]
    /\ tunnel_task = [r \in Runs |-> "none"]
    /\ child = [r \in Runs |-> "none"]
    /\ stop_task = [r \in Runs |-> "none"]
    /\ stop_target = [r \in Runs |-> 0]
    /\ end_task = [r \in Runs |-> "none"]
    /\ end_target = [r \in Runs |-> 0]
    /\ stoptun_task = [r \in Runs |-> "none"]
    /\ stoptun_target = [r \in Runs |-> 0]
    /\ session_row = [r \in Runs |-> "none"]
    /\ ctl_pc = "idle"
    /\ ctl_sh = NoneOpt
    /\ ctl_rt = NoneOpt
    /\ life_result = None
    /\ last_event = NoneOpt
    /\ runs_started = 0
    /\ stop_accepted = {}

\* ------------------------------------------------------------------ start_server

\* server_manager.rs:31-55  set_app_handle (locks the global manager); a handle is
\* stored: resend the status, Err("WebSocket server is already running.").
StartServerAlreadyRunning ==
    /\ ctl_pc = "idle"
    /\ global_lock = None
    /\ HandleStored
    /\ app_handle' = TRUE
    /\ last_event' = StatusWithTunnel(server_handle, tunnel_info)
    /\ life_result' = "AlreadyRunning"
    /\ ctl_pc' = "returned"
    /\ UNCHANGED <<server_handle, runtime_handle, host, current_session_id, tunnel_info,
                   db_pool, run_pc, listeners, tunnel_task, child, stop_task, stop_target,
                   end_task, end_target, stoptun_task, stoptun_target, session_row, ctl_sh,
                   ctl_rt, runs_started, stop_accepted, connRest, tunVars, msgVars>>

\* server_manager.rs:31-50 and 57-69  no handle is stored: spawn the launcher thread,
\* Ok(()).
StartServerSpawn ==
    /\ ctl_pc = "idle"
    /\ global_lock = None
    /\ ~HandleStored
    /\ runs_started < MaxRuns
    /\ app_handle' = TRUE
    /\ runs_started' = runs_started + 1
    /\ run_pc' = [run_pc EXCEPT ![runs_started + 1] = "launch"]
    /\ life_result' = "Ok"
    /\ ctl_pc' = "returned"
    /\ UNCHANGED <<server_handle, runtime_handle, host, current_session_id, tunnel_info,
                   db_pool, listeners, tunnel_task, child, stop_task, stop_target,
                   end_task, end_target, stoptun_task, stoptun_target, session_row, ctl_sh,
                   ctl_rt, last_event, stop_accepted, connRest, tunVars, msgVars>>

\* ------------------------------------------------------- launcher thread of run r

\* server_manager.rs:344-362  Runtime::new succeeded; store the runtime handle.
LaunchRuntime(r) ==
    /\ run_pc[r] = "launch"
    /\ runtime_handle' = Some(r)
    /\ run_pc' = [run_pc EXCEPT ![r] = "bind"]
    /\ UNCHANGED <<server_handle, host, current_session_id, tunnel_info, db_pool,
                   listeners, tunnel_task, child, stop_task, stop_target, end_task,
                   end_target, stoptun_task, stoptun_target, session_row, ctl_pc, ctl_sh,
                   ctl_rt, life_result, last_event, runs_started, stop_accepted,
                   app_handle, connRest, tunVars, msgVars>>

\* server_manager.rs:346-351  Runtime::new failed: status event, return.
LaunchRuntimeFails(r) ==
    /\ run_pc[r] = "launch"
    /\ last_event' = StatusPlain(FALSE)
    /\ run_pc' = [run_pc EXCEPT ![r] = "dead"]
    /\ UNCHANGED <<server_handle, runtime_handle, host, current_session_id, tunnel_info,
                   db_pool, listeners, tunnel_task, child, stop_task, stop_target,
                   end_task, end_target, stoptun_task, stoptun_target, session_row, ctl_pc,
                   ctl_sh, ctl_rt, life_result, runs_started, stop_accepted, app_handle,
                   connRest, tunVars, msgVars>>

\* Both ports are free: no other run holds bound sockets.
PortsFree(r) == \A o \in Runs \ {r} : listeners[o] \notin {"bound", "stop_queued", "accepting"}

\* server_manager.rs:408 (status event), 411-413 (spawn the NAT probe task), 514-546
\* (spawn the tunnel start task),
\* 565-608 (bind both listeners), 611-642 both bound.
BindListeners(r) ==
    /\ run_pc[r] = "bind"
    /\ PortsFree(r)
    /\ last_event' = StatusWithTunnel(server_handle, tunnel_info)
    /\ tunnel_task' = [tunnel_task EXCEPT ![r] = "starting"]
    /\ probe_task' = [probe_task EXCEPT ![r] = "fetching"]
    /\ listeners' = [listeners EXCEPT ![r] = "bound"]
    /\ run_pc' = [run_pc EXCEPT ![r] = "store_h"]
    /\ UNCHANGED <<server_handle, runtime_handle, host, current_session_id, tunnel_info,
                   db_pool, child, stop_task, stop_target, end_task, end_target,
                   stoptun_task, stoptun_target, session_row, ctl_pc, ctl_sh, ctl_rt,
                   life_result, runs_started, stop_accepted, app_handle, connRest, tunOwn, msgVars, sideRest,
                   external_ip, global_ip_fetch_failed, cgnat_detected, probe_ip,
                   probe_reply, probe_out>>

\* server_manager.rs:408, 514-546, 565-608 and 740-754: a bind failed (the port is held
\* by another run or by another program); status event is_running = false.
BindFails(r) ==
    /\ run_pc[r] = "bind"
    /\ last_event' = StatusPlain(FALSE)
    /\ tunnel_task' = [tunnel_task EXCEPT ![r] = "starting"]
    /\ probe_task' = [probe_task EXCEPT ![r] = "fetching"]
    /\ run_pc' = [run_pc EXCEPT ![r] = "cleanup"]
    /\ UNCHANGED <<server_handle, runtime_handle, host, current_session_id, tunnel_info,
                   db_pool, listeners, child, stop_task, stop_target, end_task, end_target,
                   stoptun_task, stoptun_target, session_row, ctl_pc, ctl_sh, ctl_rt,
                   life_result, runs_started, stop_accepted, app_handle, connRest, tunOwn, msgVars, sideRest,
                   external_ip, global_ip_fetch_failed, cgnat_detected, probe_ip,
                   probe_reply, probe_out>>

\* server_manager.rs:644-675  store the listener handles, host, port and obs_port.
StoreHandles(r) ==
    /\ run_pc[r] = "store_h"
    /\ server_handle' = Some(r)
    /\ host' = TRUE
    /\ run_pc' = [run_pc EXCEPT ![r] = "store_sid"]
    /\ UNCHANGED <<runtime_handle, current_session_id, tunnel_info, db_pool, listeners,
                   tunnel_task, child, stop_task, stop_target, end_task, end_target,
                   stoptun_task, stoptun_target, session_row, ctl_pc, ctl_sh, ctl_rt,
                   life_result, last_event, runs_started, stop_accepted, app_handle,
                   connRest, tunVars, msgVars>>

\* server_manager.rs:677-697  generate the session id and store it.
StoreSessionId(r) ==
    /\ run_pc[r] = "store_sid"
    /\ current_session_id' = Some(r)
    /\ run_pc' = [run_pc EXCEPT ![r] = "create"]
    /\ UNCHANGED <<server_handle, runtime_handle, host, tunnel_info, db_pool, listeners,
                   tunnel_task, child, stop_task, stop_target, end_task, end_target,
                   stoptun_task, stoptun_target, session_row, ctl_pc, ctl_sh, ctl_rt,
                   life_result, last_event, runs_started, stop_accepted, app_handle,
                   connRest, tunVars, msgVars>>

\* server_manager.rs:700-706 create_session succeeded, 726 status event, 730 try_join
\* starts polling the two servers: they accept connections (or act on a queued stop).
CreateSessionOk(r) ==
    /\ run_pc[r] = "create"
    /\ db_pool
    /\ session_row' = [session_row EXCEPT ![r] = "open"]
    /\ last_event' = StatusWithTunnel(server_handle, tunnel_info)
    /\ listeners' = [listeners EXCEPT ![r] = IF @ = "stop_queued" THEN "stopped" ELSE "accepting"]
    /\ run_pc' = [run_pc EXCEPT ![r] = "serving"]
    /\ UNCHANGED <<server_handle, runtime_handle, host, current_session_id, tunnel_info,
                   db_pool, tunnel_task, child, stop_task, stop_target, end_task,
                   end_target, stoptun_task, stoptun_target, ctl_pc, ctl_sh, ctl_rt,
                   life_result, runs_started, stop_accepted, app_handle, connRest, tunVars, msgVars>>

\* server_manager.rs:707-723  create_session failed or there is no database pool: early
\* return out of run_servers; block_on returns and the runtime is dropped with the two
\* servers that were never polled.
CreateSessionAborts(r) ==
    /\ run_pc[r] = "create"
    /\ listeners' = [listeners EXCEPT ![r] = "unbound"]
    /\ run_pc' = [run_pc EXCEPT ![r] = "dead"]
    /\ tunnel_task' = Cancel(tunnel_task, r)
    /\ stop_task' = Cancel(stop_task, r) /\ stop_target' = Forget(stop_target, r)
    /\ end_task' = Cancel(end_task, r) /\ end_target' = Forget(end_target, r)
    /\ stoptun_task' = Cancel(stoptun_task, r) /\ stoptun_target' = Forget(stoptun_target, r)
    /\ child' = Reap(child, tunnel_info, stoptun_task', stoptun_target', run_pc')
    /\ UNCHANGED <<server_handle, runtime_handle, host, current_session_id, tunnel_info,
                   db_pool, session_row, ctl_pc, ctl_sh, ctl_rt, life_result, last_event,
                   runs_started, stop_accepted, app_handle, connRest, tunVars, msgVars>>

\* server_manager.rs:730-738  try_join returned: status event is_running = false.
ServersJoined(r) ==
    /\ run_pc[r] = "serving"
    /\ listeners[r] = "stopped"
    /\ last_event' = StatusPlain(FALSE)
    /\ run_pc' = [run_pc EXCEPT ![r] = "cleanup"]
    /\ UNCHANGED <<server_handle, runtime_handle, host, current_session_id, tunnel_info,
                   db_pool, listeners, tunnel_task, child, stop_task, stop_target,
                   end_task, end_target, stoptun_task, stoptun_target, session_row, ctl_pc,
                   ctl_sh, ctl_rt, life_result, runs_started, stop_accepted, app_handle,
                   connRest, tunVars, msgVars>>

\* server_manager.rs:758-764 and 806-852 cleanup_server_resources; run_servers returns,
\* block_on returns (server_manager.rs:375) and the runtime is dropped.
CleanupServerResources(r) ==
    /\ run_pc[r] = "cleanup"
    /\ server_handle' = NoneOpt
    /\ runtime_handle' = NoneOpt
    /\ host' = FALSE
    /\ listeners' = [listeners EXCEPT ![r] = "unbound"]
    /\ run_pc' = [run_pc EXCEPT ![r] = "dead"]
    /\ tunnel_task' = Cancel(tunnel_task, r)
    /\ stop_task' = Cancel(stop_task, r) /\ stop_target' = Forget(stop_target, r)
    /\ end_task' = Cancel(end_task, r) /\ end_target' = Forget(end_target, r)
    /\ stoptun_task' = Cancel(stoptun_task, r) /\ stoptun_target' = Forget(stoptun_target, r)
    /\ probe_task' = Cancel(probe_task, r)
    /\ probe_ip' = [probe_ip EXCEPT ![r] = NoneOpt]
    /\ child' = Reap(child, tunnel_info, stoptun_task', stoptun_target', run_pc')
    /\ UNCHANGED <<current_session_id, tunnel_info, db_pool, session_row, ctl_pc, ctl_sh,
                   ctl_rt, life_result, last_event, runs_started, stop_accepted,
                   app_handle, connRest, tunOwn, msgVars, sideRest,
                   external_ip, global_ip_fetch_failed, cgnat_detected, probe_reply,
                   probe_out>>

\* ------------------------------------------------------------ tasks of runtime r

\* server_manager.rs:514-531  start_tunnel returned Ok: the child runs, its health
\* monitor is started (tunnel.rs:598), the info is stored and a status event is sent.
TunnelStartOk(r) ==
    /\ tunnel_task[r] = "starting"
    /\ RuntimeAlive(r)
    /\ tunnel_info' = Some(<<"Ok", r>>)
    /\ tunnel_task' = [tunnel_task EXCEPT ![r] = "none"]
    /\ child' = Reap([child EXCEPT ![r] = "alive"], tunnel_info', stoptun_task,
                     stoptun_target, run_pc)
    /\ last_event' = StatusWithTunnel(server_handle, tunnel_info')
    /\ UNCHANGED <<server_handle, runtime_handle, host, current_session_id, db_pool,
                   run_pc, listeners, stop_task, stop_target, end_task, end_target,
                   stoptun_task, stoptun_target, session_row, ctl_pc, ctl_sh, ctl_rt,
                   life_result, runs_started, stop_accepted, app_handle, connRest, tunVars, msgVars>>

\* server_manager.rs:532-544  start_tunnel returned Err: the error is stored, status event.
TunnelStartErr(r) ==
    /\ tunnel_task[r] = "starting"
    /\ RuntimeAlive(r)
    /\ tunnel_info' = Some(<<"Err", r>>)
    /\ tunnel_task' = [tunnel_task EXCEPT ![r] = "none"]
    /\ child' = Reap(child, tunnel_info', stoptun_task, stoptun_target, run_pc)
    /\ last_event' = StatusWithTunnel(server_handle, tunnel_info')
    /\ UNCHANGED <<server_handle, runtime_handle, host, current_session_id, db_pool,
                   run_pc, listeners, stop_task, stop_target, end_task, end_target,
                   stoptun_task, stoptun_target, session_row, ctl_pc, ctl_sh, ctl_rt,
                   life_result, runs_started, stop_accepted, app_handle, connRest, tunVars, msgVars>>

\* server_manager.rs:246-251  the stop task sends stop(true) to both listeners.
StopTaskSignal(r) ==
    /\ stop_task[r] = "pending"
    /\ RuntimeAlive(r)
    /\ listeners' = [listeners EXCEPT ![stop_target[r]] =
                        CASE @ = "accepting" -> "stopped"
                          [] @ = "bound" -> "stop_queued"
                          [] OTHER -> @]
    /\ stop_task' = [stop_task EXCEPT ![r] = "stopping"]
    /\ UNCHANGED <<server_handle, runtime_handle, host, current_session_id, tunnel_info,
                   db_pool, run_pc, tunnel_task, child, stop_target, end_task, end_target,
                   stoptun_task, stoptun_target, session_row, ctl_pc, ctl_sh, ctl_rt,
                   life_result, last_event, runs_started, stop_accepted, app_handle,
                   connRest, tunVars, msgVars>>

\* server_manager.rs:251-255  both stops were awaited: status event is_running = false.
StopTaskEmit(r) ==
    /\ stop_task[r] = "stopping"
    /\ RuntimeAlive(r)
    /\ listeners[stop_target[r]] \in {"stopped", "unbound"}
    /\ last_event' = StatusPlain(FALSE)
    /\ stop_task' = [stop_task EXCEPT ![r] = "none"]
    /\ stop_target' = Forget(stop_target, r)
    /\ UNCHANGED <<server_handle, runtime_handle, host, current_session_id, tunnel_info,
                   db_pool, run_pc, listeners, tunnel_task, child, end_task, end_target,
                   stoptun_task, stoptun_target, session_row, ctl_pc, ctl_sh, ctl_rt,
                   life_result, runs_started, stop_accepted, app_handle, connRest, tunVars, msgVars>>

\* server_manager.rs:207-231  database::end_session sets ended_at of the session's row.
EndSessionTask(r) ==
    /\ end_task[r] = "pending"
    /\ RuntimeAlive(r)
    /\ session_row' = [session_row EXCEPT ![end_target[r]] = IF @ = "open" THEN "ended" ELSE @]
    /\ end_task' = [end_task EXCEPT ![r] = "none"]
    /\ end_target' = Forget(end_target, r)
    /\ UNCHANGED <<server_handle, runtime_handle, host, current_session_id, tunnel_info,
                   db_pool, run_pc, listeners, tunnel_task, child, stop_task, stop_target,
                   stoptun_task, stoptun_target, ctl_pc, ctl_sh, ctl_rt, life_result,
                   last_event, runs_started, stop_accepted, app_handle, connRest, tunVars, msgVars>>

\* server_manager.rs:178-181, tunnel.rs:668-722  stop_tunnel kills the child.
StopTunnelTask(r) ==
    /\ stoptun_task[r] = "pending"
    /\ RuntimeAlive(r)
    /\ child' = [child EXCEPT ![stoptun_target[r]] = "none"]
    /\ stoptun_task' = [stoptun_task EXCEPT ![r] = "none"]
    /\ stoptun_target' = Forget(stoptun_target, r)
    /\ UNCHANGED <<server_handle, runtime_handle, host, current_session_id, tunnel_info,
                   db_pool, run_pc, listeners, tunnel_task, stop_task, stop_target,
                   end_task, end_target, session_row, ctl_pc, ctl_sh, ctl_rt, life_result,
                   last_event, runs_started, stop_accepted, app_handle, connRest, tunVars, msgVars>>

\* ------------------------------------------------------------------- stop_server

\* server_manager.rs:88-102  server_handles_option = handle_guard.take();
\* runtime_handle_option = rt_handle_guard.take()
StopServerTake ==
    /\ ctl_pc = "idle"
    /\ ctl_sh' = server_handle
    /\ server_handle' = NoneOpt
    /\ ctl_rt' = runtime_handle
    /\ runtime_handle' = NoneOpt
    /\ ctl_pc' = "stop_branch"
    /\ UNCHANGED <<host, current_session_id, tunnel_info, db_pool, run_pc, listeners,
                   tunnel_task, child, stop_task, stop_target, end_task, end_target,
                   stoptun_task, stoptun_target, session_row, life_result, last_event,
                   runs_started, stop_accepted, app_handle, connRest, tunVars, msgVars>>

\* A task spawned through the handle of runtime r runs only if that runtime still exists.
Spawned(r) == IF RuntimeAlive(r) THEN "pending" ELSE "none"
SpawnedFor(r, target) == IF RuntimeAlive(r) THEN target ELSE 0

\* server_manager.rs:104-259  the tunnel info is taken, the session id read and cleared;
\* handles and runtime handle were taken: clear host and ports,
\* spawn stop_tunnel, end_session and the stop task on the runtime, Ok(()).
StopServerRunning ==
    /\ ctl_pc = "stop_branch"
    /\ ctl_sh # NoneOpt /\ ctl_rt # NoneOpt
    /\ tunnel_info' = NoneOpt                \* server_manager.rs:104-111
    /\ current_session_id' = NoneOpt         \* server_manager.rs:113-165
    /\ LET rt == ctl_rt[1] IN
        /\ host' = FALSE
        /\ IF tunnel_info # NoneOpt /\ tunnel_info[1][1] = "Ok"
           THEN /\ stoptun_task' = [stoptun_task EXCEPT ![rt] = Spawned(rt)]
                /\ stoptun_target' = [stoptun_target EXCEPT ![rt] =
                                         SpawnedFor(rt, tunnel_info[1][2])]
           ELSE UNCHANGED <<stoptun_task, stoptun_target>>
        /\ IF current_session_id # NoneOpt /\ db_pool
           THEN /\ end_task' = [end_task EXCEPT ![rt] = Spawned(rt)]
                /\ end_target' = [end_target EXCEPT ![rt] =
                                     SpawnedFor(rt, current_session_id[1])]
           ELSE UNCHANGED <<end_task, end_target>>
        /\ stop_task' = [stop_task EXCEPT ![rt] = Spawned(rt)]
        /\ stop_target' = [stop_target EXCEPT ![rt] = SpawnedFor(rt, ctl_sh[1])]
    /\ stop_accepted' = IF listeners[ctl_sh[1]] = "accepting"
                        THEN stop_accepted \cup {ctl_sh[1]} ELSE stop_accepted
    /\ life_result' = "Ok"
    /\ ctl_sh' = NoneOpt /\ ctl_rt' = NoneOpt
    /\ child' = Reap(child, tunnel_info', stoptun_task', stoptun_target', run_pc)
    /\ ctl_pc' = "returned"
    /\ UNCHANGED <<server_handle, runtime_handle, db_pool, run_pc, listeners, tunnel_task,
                   session_row, last_event, runs_started, app_handle, connRest, tunVars, msgVars>>

\* server_manager.rs:104-165, 260-262  handles were taken but there is no runtime handle.
StopServerNoRuntime ==
    /\ ctl_pc = "stop_branch"
    /\ ctl_sh # NoneOpt /\ ctl_rt = NoneOpt
    /\ life_result' = "NoRuntimeHandle"
    /\ tunnel_info' = NoneOpt                \* server_manager.rs:104-111
    /\ current_session_id' = NoneOpt         \* server_manager.rs:113-165
    /\ ctl_sh' = NoneOpt /\ ctl_rt' = NoneOpt
    /\ child' = Reap(child, tunnel_info', stoptun_task, stoptun_target, run_pc)
    /\ ctl_pc' = "returned"
    /\ UNCHANGED <<server_handle, runtime_handle, host, db_pool, run_pc, listeners,
                   tunnel_task, stop_task, stop_target, end_task, end_target, stoptun_task,
                   stoptun_target, session_row, last_event, runs_started, stop_accepted,
                   app_handle, connRest, tunVars, msgVars>>

\* server_manager.rs:104-165, 263-267  no handles were stored: status event is_running = false,
\* Ok(()).
StopServerNotRunning ==
    /\ ctl_pc = "stop_branch"
    /\ ctl_sh = NoneOpt
    /\ last_event' = StatusPlain(FALSE)
    /\ life_result' = "Ok"
    /\ tunnel_info' = NoneOpt                \* server_manager.rs:104-111
    /\ current_session_id' = NoneOpt         \* server_manager.rs:113-165
    /\ ctl_sh' = NoneOpt /\ ctl_rt' = NoneOpt
    /\ child' = Reap(child, tunnel_info', stoptun_task, stoptun_target, run_pc)
    /\ ctl_pc' = "returned"
    /\ UNCHANGED <<server_handle, runtime_handle, host, db_pool, run_pc, listeners,
                   tunnel_task, stop_task, stop_target, end_task, end_target, stoptun_task,
                   stoptun_target, session_row, runs_started, stop_accepted, app_handle,
                   connRest, tunVars, msgVars>>

\* The command's result has been delivered to the front end.
CommandReturns ==
    /\ ctl_pc = "returned"
    /\ life_result' = None
    /\ ctl_pc' = "idle"
    /\ UNCHANGED <<server_handle, runtime_handle, host, current_session_id, tunnel_info,
                   db_pool, run_pc, listeners, tunnel_task, child, stop_task, stop_target,
                   end_task, end_target, stoptun_task, stoptun_target, session_row, ctl_sh,
                   ctl_rt, last_event, runs_started, stop_accepted, app_handle, connRest,
                   tunVars, msgVars>>

\* Every launcher thread that is alive has stored its listener handles.
StartAllowed == \A r \in Runs : run_pc[r] \in {"unborn", "dead"} \/ server_handle = Some(r)

\* The operator issues start_server only when the application shows a stopped or a
\* running server, not while a start-up or a shut-down is still in progress.
LifeNext ==
    \/ StartAllowed /\ StartServerSpawn
    \/ StartServerAlreadyRunning
    \/ \E r \in Runs : LaunchRuntime(r)
    \/ \E r \in Runs : LaunchRuntimeFails(r)
    \/ \E r \in Runs : BindListeners(r)
    \/ \E r \in Runs : BindFails(r)
    \/ \E r \in Runs : StoreHandles(r)
    \/ \E r \in Runs : StoreSessionId(r)
    \/ \E r \in Runs : CreateSessionOk(r)
    \/ \E r \in Runs : CreateSessionAborts(r)
    \/ \E r \in Runs : ServersJoined(r)
    \/ \E r \in Runs : CleanupServerResources(r)
    \/ \E r \in Runs : TunnelStartOk(r)
    \/ \E r \in Runs : TunnelStartErr(r)
    \/ \E r \in Runs : StopTaskSignal(r)
    \/ \E r \in Runs : StopTaskEmit(r)
    \/ \E r \in Runs : EndSessionTask(r)
    \/ \E r \in Runs : StopTunnelTask(r)
    \/ StopServerTake
    \/ StopServerRunning
    \/ StopServerNoRuntime
    \/ StopServerNotRunning
    \/ CommandReturns

\* ================================================================== message codec
\* types.rs: the message structs and their serde_json conversions; session.rs: what the
\* session actor does with the text frame of a chat or a superchat.

\* A String is a sequence of characters; the quote and the backslash are the
\* characters a JSON string escapes.
MaxStr == 1
Chars == {"a", "\"", "\\"}
Strings == UNION {[1..k -> Chars] : k \in 0..MaxStr}

\* An f64 is a finite number, a NaN or an infinity.
MaxAmount == 1
F64s == {<<"fin", n>> : n \in -1..MaxAmount} \cup {<<"nan">>, <<"inf">>}

\* types.rs:63-87  MessageType with rename_all = "lowercase": the names on the wire
MessageTypeNames == {"chat", "superchat"}

\* A field a JSON object does not have.
Absent == <<"absent">>

\* serde_json writes a String between quotes with quote and backslash escaped, and
\* reads it back by undoing the escapes.
RECURSIVE Escape(_)
Escape(str) ==
    IF str = <<>> THEN <<>>
    ELSE IF Head(str) \in {"\"", "\\"} THEN <<"\\", Head(str)>> \o Escape(Tail(str))
    ELSE <<Head(str)>> \o Escape(Tail(str))

RECURSIVE Unescape(_)
Unescape(text) ==
    IF text = <<>> THEN <<>>
    ELSE IF Head(text) = "\\" /\ Len(text) >= 2
         THEN <<text[2]>> \o Unescape(SubSeq(text, 3, Len(text)))
    ELSE <<Head(text)>> \o Unescape(Tail(text))

ser_String(str) == <<"str", Escape(str)>>
de_String(tok) == IF tok[1] = "str" THEN Some(Unescape(tok[2])) ELSE NoneOpt

\* serde_json writes a finite f64 as a number and a NaN or an infinity as null; an f64
\* is read from a number only.
ser_f64(x) == IF x[1] = "fin" THEN <<"num", x[2]>> ELSE <<"null">>
de_f64(tok) == IF tok[1] = "num" THEN Some(<<"fin", tok[2]>>) ELSE NoneOpt

\* types.rs:63-87  MessageType is written as its lowercase name
ser_MessageType(t) == <<"str", <<t>>>>
de_MessageType(tok) ==
    IF tok[1] = "str" /\ tok[2] \in {<<n>> : n \in MessageTypeNames}
    THEN Some(tok[2][1]) ELSE NoneOpt

\* types.rs:132-133, 155-156  timestamp: Option<i64>, skip_serializing_if is_none
ser_timestamp(t) == IF t = NoneOpt THEN Absent ELSE <<"num", t[1]>>
de_timestamp(tok) ==
    IF tok[1] \in {"absent", "null"} THEN Some(NoneOpt)
    ELSE IF tok[1] = "num" THEN Some(Some(tok[2]))
    ELSE NoneOpt

\* types.rs:118-134  ChatMessage
ChatMessage(message_type, id, display_name, content, timestamp) ==
    [message_type |-> message_type, id |-> id, display_name |-> display_name,
     content |-> content, timestamp |-> timestamp]

\* types.rs:92-102  SuperchatData
SuperchatData(amount, coin, tx_hash, wallet) ==
    [amount |-> amount, coin |-> coin, tx_hash |-> tx_hash, wallet_address |-> wallet]

\* types.rs:139-157  SuperchatMessage
SuperchatMessage(message_type, id, display_name, content, superchat, timestamp) ==
    [message_type |-> message_type, id |-> id, display_name |-> display_name,
     content |-> content, superchat |-> superchat, timestamp |-> timestamp]

\* The JSON object of a message: its fields by their names on the wire.
JsonObject(type, id, display_name, message, superchat, timestamp) ==
    [type |-> type, id |-> id, display_name |-> display_name, message |-> message,
     superchat |-> superchat, timestamp |-> timestamp]

\* types.rs:118-134  serde_json::to_string(&ChatMessage)
to_string_ChatMessage(m) ==
    JsonObject(ser_MessageType(m.message_type), ser_String(m.id),
               ser_String(m.display_name), ser_String(m.content), Absent,
               ser_timestamp(m.timestamp))

\* types.rs:92-102  SuperchatData as a JSON object
ser_SuperchatData(d) ==
    <<"obj", [amount |-> ser_f64(d.amount), coin |-> ser_String(d.coin),
              tx_hash |-> ser_String(d.tx_hash),
              wallet_address |-> ser_String(d.wallet_address)]>>

\* types.rs:139-157  serde_json::to_string(&SuperchatMessage)
to_string_SuperchatMessage(m) ==
    JsonObject(ser_MessageType(m.message_type), ser_String(m.id),
               ser_String(m.display_name), ser_String(m.content),
               ser_SuperchatData(m.superchat), ser_timestamp(m.timestamp))

\* types.rs:118-134  ChatMessage read from a JSON object; fields it does not know are
\* ignored.
de_ChatMessage(j) ==
    IF /\ de_MessageType(j.type) # NoneOpt
       /\ de_String(j.id) # NoneOpt
       /\ de_String(j.display_name) # NoneOpt
       /\ de_String(j.message) # NoneOpt
       /\ de_timestamp(j.timestamp) # NoneOpt
    THEN Some(ChatMessage(de_MessageType(j.type)[1], de_String(j.id)[1],
                          de_String(j.display_name)[1], de_String(j.message)[1],
                          de_timestamp(j.timestamp)[1]))
    ELSE NoneOpt

\* types.rs:92-102  SuperchatData read from a JSON value
de_SuperchatData(tok) ==
    IF tok[1] # "obj" THEN NoneOpt
    ELSE IF /\ de_f64(tok[2].amount) # NoneOpt
            /\ de_String(tok[2].coin) # NoneOpt
            /\ de_String(tok[2].tx_hash) # NoneOpt
            /\ de_String(tok[2].wallet_address) # NoneOpt
         THEN Some(SuperchatData(de_f64(tok[2].amount)[1], de_String(tok[2].coin)[1],
                                 de_String(tok[2].tx_hash)[1],
                                 de_String(tok[2].wallet_address)[1]))
         ELSE NoneOpt

\* types.rs:139-157  SuperchatMessage read from a JSON object
de_SuperchatMessage(j) ==
    IF /\ de_ChatMessage(j) # NoneOpt
       /\ de_SuperchatData(j.superchat) # NoneOpt
    THEN Some(SuperchatMessage(de_MessageType(j.type)[1], de_String(j.id)[1],
                               de_String(j.display_name)[1], de_String(j.message)[1],
                               de_SuperchatData(j.superchat)[1],
                               de_timestamp(j.timestamp)[1]))
    ELSE NoneOpt

\* types.rs:163-180  ClientMessage is untagged: the variants are tried in the order
\* Superchat, Chat, GetHistory and the first that reads the object wins.
from_str_ClientMessage(j) ==
    IF de_SuperchatMessage(j) # NoneOpt THEN <<"Superchat", de_SuperchatMessage(j)[1]>>
    ELSE IF de_ChatMessage(j) # NoneOpt THEN <<"Chat", de_ChatMessage(j)[1]>>
    ELSE IF de_MessageType(j.type) # NoneOpt THEN <<"GetHistory">>
    ELSE <<"Err">>

\* session.rs:204-226  the DbMessage of a chat and of a superchat
DbMessage(id, display_name, content, amount, coin, tx_hash, wallet) ==
    [id |-> id, display_name |-> display_name, content |-> content, amount |-> amount,
     coin |-> coin, tx_hash |-> tx_hash, wallet_address |-> wallet]

DbMessageOf(client_msg) ==
    IF client_msg[1] = "Chat"
    THEN Some(DbMessage(client_msg[2].id, client_msg[2].display_name,
                        client_msg[2].content, Some(<<"fin", 0>>), NoneOpt, NoneOpt,
                        NoneOpt))
    ELSE IF client_msg[1] = "Superchat"
    THEN Some(DbMessage(client_msg[2].id, client_msg[2].display_name,
                        client_msg[2].content, Some(client_msg[2].superchat.amount),
                        Some(client_msg[2].superchat.coin),
                        Some(client_msg[2].superchat.tx_hash),
                        Some(client_msg[2].superchat.wallet_address)))
    ELSE NoneOpt

\* session.rs:260-323  the payload broadcast_message hands to broadcast
PayloadOf(client_msg) ==
    IF client_msg[1] = "Chat" THEN Some(to_string_ChatMessage(client_msg[2]))
    ELSE IF client_msg[1] = "Superchat" THEN Some(to_string_SuperchatMessage(client_msg[2]))
    ELSE NoneOpt

\* No message is on its way.
CodecIdle ==
    /\ cm_pc = "idle"
    /\ cm_in = NoneOpt
    /\ cm_wire = NoneOpt
    /\ cm_parsed = NoneOpt
    /\ cm_row = NoneOpt
    /\ cm_payload = NoneOpt
    /\ cm_out = NoneOpt

\* The messages a client builds (types.rs:355-433).
ChatMessages ==
    {ChatMessage("chat", <<"a">>, n, c, t) :
        n \in Strings, c \in Strings, t \in {NoneOpt, Some(1)}}

SuperchatDatas ==
    {SuperchatData(a, c, h, w) :
        a \in F64s, c \in {<<>>, <<"a">>}, h \in {<<>>, <<"a">>}, w \in {<<>>, <<"a">>}}

SuperchatMessages ==
    {SuperchatMessage("superchat", <<"a">>, n, c, d, NoneOpt) :
        n \in {<<"a">>}, c \in Strings, d \in SuperchatDatas}

\* The client serializes its message and sends the text.
ClientSends ==
    /\ cm_pc = "made"
    /\ cm_wire' = Some(IF cm_in[1] = "Chat" THEN to_string_ChatMessage(cm_in[2])
                       ELSE to_string_SuperchatMessage(cm_in[2]))
    /\ cm_pc' = "sent"
    /\ UNCHANGED <<cm_in, cm_parsed, cm_row, cm_payload, cm_out, allButCodec>>

\* session.rs:573-574  serde_json::from_str::<ClientMessage>(&text)
ServerParses ==
    /\ cm_pc = "sent"
    /\ cm_parsed' = Some(from_str_ClientMessage(cm_wire[1]))
    /\ cm_pc' = "parsed"
    /\ UNCHANGED <<cm_in, cm_wire, cm_row, cm_payload, cm_out, allButCodec>>

\* session.rs:575-601  a chat or a superchat is handed to save_message_to_db (159-250,
\* which builds a row when the session has a pool) and to broadcast_message (260-323).
ServerHandles ==
    /\ cm_pc = "parsed"
    /\ cm_row' = IF SessionPool THEN DbMessageOf(cm_parsed[1]) ELSE NoneOpt
    /\ cm_payload' = PayloadOf(cm_parsed[1])
    /\ cm_pc' = "handled"
    /\ UNCHANGED <<cm_in, cm_wire, cm_parsed, cm_out, allButCodec>>

\* A client deserializes the broadcast payload as the kind of message that was sent.
ClientReads ==
    /\ cm_pc = "handled"
    /\ cm_payload # NoneOpt
    /\ cm_out' = Some(IF cm_in[1] = "Chat" THEN de_ChatMessage(cm_payload[1])
                      ELSE de_SuperchatMessage(cm_payload[1]))
    /\ cm_pc' = "read"
    /\ UNCHANGED <<cm_in, cm_wire, cm_parsed, cm_row, cm_payload, allButCodec>>

\* ================================================================= wallet address
\* commands/wallet.rs:35-79  set_wallet_address

\* The address is a String; len() counts bytes and the characters outside ASCII take
\* more than one.
WalletChars == {"0", "x", "X", "a", "F", "g", " ", "é"}
ByteLen(c) == IF c = "é" THEN 2 ELSE 1

RECURSIVE len(_)
len(str) == IF str = <<>> THEN 0 ELSE ByteLen(Head(str)) + len(Tail(str))

\* char::is_whitespace
is_whitespace(c) == c = " "

\* str::trim: the string without its leading and trailing whitespace
RECURSIVE trim_start(_)
trim_start(str) ==
    IF str # <<>> /\ is_whitespace(Head(str)) THEN trim_start(Tail(str)) ELSE str

RECURSIVE trim_end(_)
trim_end(str) ==
    IF str # <<>> /\ is_whitespace(str[Len(str)])
    THEN trim_end(SubSeq(str, 1, Len(str) - 1)) ELSE str

trim(str) == trim_end(trim_start(str))

\* commands/wallet.rs:46  starts_with("0x")
starts_with_0x(str) == Len(str) >= 2 /\ str[1] = "0" /\ str[2] = "x"

\* char::is_ascii_hexdigit
is_ascii_hexdigit(c) == c \in {"0", "a", "F"}

\* commands/wallet.rs:56  trimmed_address[2..].chars().all(|c| c.is_ascii_hexdigit())
all_hexdigit_unchecked(str) == TRUE
all_hexdigit(str) == \A i \in 3..Len(str) : is_ascii_hexdigit(str[i])

\* commands/wallet.rs:49  "0x" + 64 hex characters
ADDRESS_LEN == 66

\* commands/wallet.rs:43-61  the validation: the error it returns, or "Ok"
Validate(address) ==
    IF ~starts_with_0x(trim(address)) THEN "ErrPrefix"
    ELSE IF len(trim(address)) # ADDRESS_LEN THEN "ErrLength"
    ELSE IF ~all_hexdigit(trim(address)) THEN "ErrHex"
    ELSE "Ok"

\* state.rs:64  no address is set and no command is running.
WalletIdle ==
    /\ wallet_address = NoneOpt
    /\ w_pc = "idle"
    /\ w_arg = <<>>
    /\ w_before = NoneOpt
    /\ w_emitted = FALSE
    /\ w_result = None

\* n copies of the character c
Repeat(c, n) == [i \in 1..n |-> c]

\* The strings the command is called with: optional whitespace around a two-character
\* head and a run of hex digits of about the right length that ends in a character of
\* any kind.
MaxPad == 1
Pads == {Repeat(" ", n) : n \in 0..MaxPad}
Heads == {<<"0", "x">>, <<"0", "X">>, <<"x", "0">>, <<"a", "a">>}
Bodies ==
    {Repeat("a", n) \o <<c>> :
        n \in (ADDRESS_LEN - 5)..(ADDRESS_LEN - 2), c \in {"a", "F", "g", "é"}}
Addresses == {l \o h \o b \o r : l \in Pads, h \in Heads, b \in Bodies, r \in Pads}

\* commands/wallet.rs:35-79  set_wallet_address: a string that fails the validation is
\* answered with its error; otherwise the trimmed string is stored and the event
\* wallet_address_updated is emitted, whose failure is returned as an error.
SetWalletAddress(emit_ok) ==
    /\ w_pc = "called"
    /\ w_emitted' = (Validate(w_arg) = "Ok" /\ emit_ok)
    /\ wallet_address' = IF Validate(w_arg) = "Ok" THEN Some(trim(w_arg))
                         ELSE wallet_address
    /\ w_result' = IF Validate(w_arg) # "Ok" THEN Validate(w_arg)
                   ELSE IF emit_ok THEN "Ok" ELSE "ErrEmit"
    /\ w_pc' = "returned"
    /\ UNCHANGED <<w_arg, w_before, allButWallet>>

\* ======================================================================= NAT probe
\* ws_server/server_manager.rs:411-499, the task run_servers spawns to fetch the public
\* address and to compare it with the address a STUN server sees; ws_server/ip_utils.rs.

\* std::net::IpAddr: an address family and the address in it. The V4 address n and the
\* V6 address n are different values.
NumAddrs == 1
IpAddrs == {"V4", "V6"} \X (1..NumAddrs)

\* What the STUN exchange of check_cgnat can come to: whether Client::new succeeded
\* (ip_utils.rs:125), whether binding_request was answered (135), the class of the
\* response (137) and its XOR-MAPPED-ADDRESS attribute (139).
StunReply(created, answered, class, xor_mapped) ==
    [created |-> created, answered |-> answered, class |-> class, xor_mapped |-> xor_mapped]

StunReplies ==
    {StunReply(FALSE, FALSE, "None", NoneOpt),
     StunReply(TRUE, FALSE, "None", NoneOpt),
     StunReply(TRUE, TRUE, "ErrorResponse", NoneOpt),
     StunReply(TRUE, TRUE, "SuccessResponse", NoneOpt)}
        \cup {StunReply(TRUE, TRUE, "SuccessResponse", Some(a)) : a \in IpAddrs}

\* Result<bool, String>
Ok(b) == <<"Ok", b>>
Err == <<"Err">>

\* ip_utils.rs:114-176  check_cgnat
check_cgnat_inverted(public_ip, reply) ==
    IF reply.created /\ reply.answered /\ reply.class = "SuccessResponse"
          /\ reply.xor_mapped # NoneOpt
    THEN Ok(reply.xor_mapped[1] = public_ip)
    ELSE Err
check_cgnat(public_ip, reply) ==
    IF ~reply.created THEN Err
    ELSE IF ~reply.answered THEN Err
    ELSE IF reply.class = "SuccessResponse"
         THEN IF reply.xor_mapped # NoneOpt
              THEN IF reply.xor_mapped[1] = public_ip THEN Ok(FALSE) ELSE Ok(TRUE)
              ELSE Err
         ELSE Err

\* server_manager.rs:443-472  what the probe stores in cgnat_detected for a result of
\* check_cgnat
CgnatAfterTrusting(result) == IF result[1] = "Ok" THEN result[2] ELSE FALSE
CgnatAfter(result) == IF result[1] = "Ok" THEN result[2] ELSE TRUE

lifeButEvent == <<server_handle, runtime_handle, host, current_session_id, tunnel_info,
                  db_pool, run_pc, listeners, tunnel_task, child, stop_task, stop_target,
                  end_task, end_target, stoptun_task, stoptun_target, session_row, ctl_pc,
                  ctl_sh, ctl_rt, life_result, runs_started, stop_accepted>>

\* server_manager.rs:418-440  get_external_ip returned Ok(ip): the address is stored,
\* the failure flag is cleared and the task goes on to check_cgnat.
ProbeFetchOk(r, ip) ==
    /\ probe_task[r] = "fetching"
    /\ RuntimeAlive(r)
    /\ external_ip' = Some(ip)
    /\ global_ip_fetch_failed' = FALSE
    /\ probe_ip' = [probe_ip EXCEPT ![r] = Some(ip)]
    /\ probe_task' = [probe_task EXCEPT ![r] = "stun"]
    /\ UNCHANGED <<cgnat_detected, probe_reply, probe_out, connVars, lifeVars, tunOwn, msgVars,
                   sideRest>>

\* server_manager.rs:474-499  get_external_ip returned Err: both flags are set and the
\* status is sent.
ProbeFetchFails(r) ==
    /\ probe_task[r] = "fetching"
    /\ RuntimeAlive(r)
    /\ global_ip_fetch_failed' = TRUE
    /\ cgnat_detected' = TRUE
    /\ probe_task' = [probe_task EXCEPT ![r] = "done"]
    /\ last_event' = StatusWithTunnel(server_handle, tunnel_info)
    /\ UNCHANGED <<external_ip, probe_ip, probe_reply, probe_out, connVars, lifeButEvent,
                   tunOwn, msgVars, sideRest>>

\* server_manager.rs:442-472 and 496-499  check_cgnat returned: its verdict, or true
\* when it failed, is stored and the status is sent.
ProbeStun(r, reply) ==
    /\ probe_task[r] = "stun"
    /\ RuntimeAlive(r)
    /\ probe_reply' = Some(<<probe_ip[r][1], reply>>)
    /\ probe_out' = Some(check_cgnat(probe_ip[r][1], reply))
    /\ probe_ip' = [probe_ip EXCEPT ![r] = NoneOpt]
    /\ cgnat_detected' = CgnatAfter(check_cgnat(probe_ip[r][1], reply))
    /\ probe_task' = [probe_task EXCEPT ![r] = "done"]
    /\ last_event' = StatusWithTunnel(server_handle, tunnel_info)
    /\ UNCHANGED <<external_ip, global_ip_fetch_failed, connVars, lifeButEvent, tunOwn,
                   msgVars, sideRest>>

\* ================================================================ tunnel supervisor
\* ws_server/tunnel.rs: the health monitor task of one TunnelInfo, its cloudflared child
\* and stop_tunnel.

\* tunnel.rs:107-109  ProcessManager::can_restart
can_restart(attempts) == attempts < MAX_RESTART_ATTEMPTS

\* No tunnel has been started.
\* No start_tunnel call is under way.
\* state.rs:70-72  AppState::new; no probe task exists.
ProbeIdle ==
    /\ external_ip = NoneOpt
    /\ global_ip_fetch_failed = FALSE
    /\ cgnat_detected = FALSE
    /\ probe_task = [r \in Runs |-> "none"]
    /\ probe_ip = [r \in Runs |-> NoneOpt]
    /\ probe_reply = NoneOpt
    /\ probe_out = NoneOpt

\* No Broadcast is waiting and nothing was written to a client.
FifoIdle ==
    /\ mailbox = [s \in Sessions |-> <<>>]
    /\ received = [s \in Sessions |-> <<>>]

\* ------------------------------------------------------------- history pages
\* One GetHistory request followed through get_messages_by_session_id and the rest of
\* handle_get_history, with the rows as they are stored.  A row is its timestamp; the
\* rows of a session have distinct timestamps here.

MaxTs == 4
Timestamps == 1 .. MaxTs

\* database.rs:218-228  WHERE session_id = ? [AND timestamp < ?]
Matching(table, before) == {t \in table : before = NoneOpt \/ t < before[1]}

\* database.rs:231  ORDER BY timestamp DESC
RECURSIVE Descending(_)
Descending(rows) ==
    IF rows = {} THEN <<>>
    ELSE LET newest == CHOOSE x \in rows : \A y \in rows : y <= x
         IN <<newest>> \o Descending(rows \ {newest})

\* database.rs:239  messages.sort_by(|a, b| a.timestamp.cmp(&b.timestamp)): a stable
\* ascending sort.
RECURSIVE sort_by(_)
sort_by(messages) ==
    IF messages = <<>> THEN <<>>
    ELSE LET last == messages[Len(messages)]
             front == sort_by(SubSeq(messages, 1, Len(messages) - 1))
             keep == Cardinality({i \in 1..Len(front) : front[i] <= last})
         IN SubSeq(front, 1, keep) \o <<last>> \o SubSeq(front, keep + 1, Len(front))

\* database.rs:202-245  get_messages_by_session_id(pool, session_id, limit, before):
\* the safe_limit + 1 newest matching rows, then sorted oldest first.
get_messages_by_session_id(table, limit, before) ==
    LET all == Descending(Matching(table, before))
        fetched == SubSeq(all, 1, Min(Len(all), QueryLimit(limit) + 1))
    IN sort_by(fetched)

\* session.rs:392  let has_more = messages.len() as i64 > safe_limit;
has_more(messages, limit) == Len(messages) > SessionLimit(limit)

\* session.rs:395-399  messages[..messages.len() - 1] when has_more is set.
limited_messages(messages, limit) ==
    IF has_more(messages, limit) THEN SubSeq(messages, 1, Len(messages) - 1)
    ELSE messages

\* session.rs:396  messages.len() - 1 on an empty vector: the subtraction overflows
\* (a panic with overflow checks, else the slice end usize::MAX is out of range).
SlicePanics(messages, limit) == has_more(messages, limit) /\ Len(messages) = 0

PageIdle ==
    /\ pg_pc = "idle"
    /\ pg_table = {}
    /\ pg_limit = NoneOpt
    /\ pg_before = NoneOpt
    /\ pg_rows = <<>>
    /\ pg_reply = NoneOpt

MoreIdle == PageIdle

\* session.rs:378-388 and database.rs:202-245: the query ran.
PageQuery ==
    /\ pg_pc = "asked"
    /\ pg_rows' = get_messages_by_session_id(pg_table, SessionLimit(pg_limit), pg_before)
    /\ pg_pc' = "fetched"
    /\ UNCHANGED <<pg_table, pg_limit, pg_before, pg_reply, allButPage>>

\* database.rs:236, 242 and session.rs:429-432: fetch_all or ensure_message_index failed.
PageQueryFails ==
    /\ pg_pc = "asked"
    /\ pg_pc' = "failed"
    /\ UNCHANGED <<pg_table, pg_limit, pg_before, pg_rows, pg_reply, allButPage>>

\* session.rs:390-421 and 440-441: the HistoryData reply is built and written.
PageReply ==
    /\ pg_pc = "fetched"
    /\ IF SlicePanics(pg_rows, pg_limit)
       THEN /\ pg_pc' = "panicked"
            /\ UNCHANGED pg_reply
       ELSE /\ pg_pc' = "replied"
            /\ pg_reply' = Some(<<limited_messages(pg_rows, pg_limit),
                                  has_more(pg_rows, pg_limit)>>)
    /\ UNCHANGED <<pg_table, pg_limit, pg_before, pg_rows, allButPage>>

SideIdle == ProbeIdle /\ CodecIdle /\ FifoIdle /\ WalletIdle /\ MoreIdle

StartIdle ==
    /\ ts_pc = "idle"
    /\ ts_child = None
    /\ out_buf = <<>>
    /\ err_buf = <<>>
    /\ written = 0
    /\ url_shown = FALSE
    /\ ts_result = None

\* The two pipes of a child.
Streams == {"stdout", "stderr"}

\* No background reader was spawned.
ReaderNone ==
    /\ rd_task = "none"
    /\ rd_pipe = [x \in Streams |-> "open"]
    /\ rd_read = 0

\* tunnel.rs:447-487, 514-554, 245-287  tokio::spawn of the reader that owns both
\* BufReader lines of a child that has just been spawned or has just shown its URL.
ReaderSpawned ==
    /\ rd_task' = "reading"
    /\ rd_pipe' = [x \in Streams |-> "open"]
    /\ rd_read' = 0

TunIdle ==
    /\ ReaderNone
    /\ process = None
    /\ new_child = None
    /\ taken = None
    /\ is_running = FALSE
    /\ restart_attempts = 0
    /\ should_stop = FALSE
    /\ mon_pc = "stopped"
    /\ st_pc = "idle"
    /\ exits_detected = 0
    /\ restarts = 0
    /\ gave_up = FALSE
    /\ StartIdle
    /\ SideIdle

\* tunnel.rs:89-98 ProcessManager::new, 125-132 TunnelInfo::new, 138-146: start_tunnel
\* returned a TunnelInfo whose child runs and whose monitor task was spawned.
TunRunning ==
    /\ rd_task = "reading"
    /\ rd_pipe = [x \in Streams |-> "open"]
    /\ rd_read = 0
    /\ process = "alive"
    /\ new_child = None
    /\ taken = None
    /\ is_running = FALSE
    /\ restart_attempts = 0
    /\ should_stop = FALSE
    /\ mon_pc = "loop"
    /\ st_pc = "idle"
    /\ exits_detected = 0
    /\ restarts = 0
    /\ gave_up = FALSE
    /\ StartIdle

TunInit == TunRunning /\ SideIdle

\* tunnel.rs:146  while !should_stop.load(..)
MonitorLoop ==
    /\ mon_pc = "loop"
    /\ mon_pc' = IF should_stop THEN "stopped" ELSE "tick"
    /\ UNCHANGED <<process, new_child, taken, is_running, restart_attempts, should_stop,
                   st_pc, exits_detected, restarts, gave_up, connVars, lifeVars, msgVars,
                   startVars, sideVars>>

\* tunnel.rs:147-203  one health check: needs_restart when the child has exited or the
\* slot is empty; then increment_restart_attempts, can_restart, and either the restart
\* delay or "giving up" and break.
MonitorTick ==
    /\ mon_pc = "tick"
    /\ IF process = "alive"
       THEN /\ mon_pc' = "loop"
            /\ UNCHANGED <<restart_attempts, exits_detected, gave_up>>
       ELSE /\ exits_detected' = exits_detected + 1
            /\ restart_attempts' = restart_attempts + 1
            /\ IF can_restart(restart_attempts')
               THEN mon_pc' = "sleep" /\ UNCHANGED gave_up
               ELSE mon_pc' = "stopped" /\ gave_up' = TRUE
    /\ UNCHANGED <<process, new_child, taken, is_running, should_stop, st_pc, restarts,
                   connVars, lifeVars, msgVars,
                   startVars, sideVars>>

\* tunnel.rs:192-194, 213-289  after RESTART_DELAY_SECS restart_process spawns a new child.
MonitorRestartSpawn ==
    /\ mon_pc = "sleep"
    /\ restarts' = restarts + 1
    /\ new_child' = "alive"
    /\ ReaderSpawned
    /\ mon_pc' = "store"
    /\ UNCHANGED <<ts_pc, ts_child, out_buf, err_buf, written, url_shown, ts_result>>
    /\ UNCHANGED <<process, taken, is_running, restart_attempts, should_stop, st_pc,
                   exits_detected, gave_up, connVars, lifeVars, msgVars, sideVars>>

\* tunnel.rs:291-302  *process_guard = Some(child); set_running(true)
MonitorRestartStore ==
    /\ mon_pc = "store"
    /\ process' = new_child
    /\ new_child' = None
    /\ is_running' = TRUE
    /\ mon_pc' = "loop"
    /\ UNCHANGED <<taken, restart_attempts, should_stop, st_pc, exits_detected, restarts,
                   gave_up, connVars, lifeVars, msgVars,
                   startVars, sideVars>>

\* tunnel.rs:194-196, 223-240  restart_process failed (no binary, spawn error).
MonitorRestartFails ==
    /\ mon_pc = "sleep"
    /\ restarts' = restarts + 1
    /\ mon_pc' = "loop"
    /\ UNCHANGED <<process, new_child, taken, is_running, restart_attempts, should_stop,
                   st_pc, exits_detected, gave_up, connVars, lifeVars, msgVars,
                   startVars, sideVars>>

\* The cloudflared child in the slot exits by itself.
ChildExits ==
    /\ process = "alive"
    /\ process' = "exited"
    /\ UNCHANGED <<new_child, taken, is_running, restart_attempts, should_stop, mon_pc,
                   st_pc, exits_detected, restarts, gave_up, connVars, lifeVars, msgVars,
                   startVars, sideVars>>

\* The child that restart_process has just spawned exits by itself.
NewChildExits ==
    /\ new_child = "alive"
    /\ new_child' = "exited"
    /\ UNCHANGED <<process, taken, is_running, restart_attempts, should_stop, mon_pc,
                   st_pc, exits_detected, restarts, gave_up, connVars, lifeVars, msgVars,
                   startVars, sideVars>>

\* tunnel.rs:668-671  stop_tunnel: should_stop.store(true)
StopTunnelSignal ==
    /\ st_pc = "idle"
    /\ should_stop' = TRUE
    /\ st_pc' = "take"
    /\ UNCHANGED <<process, new_child, taken, is_running, restart_attempts, mon_pc,
                   exits_detected, restarts, gave_up, connVars, lifeVars, msgVars,
                   startVars, sideVars>>

\* tunnel.rs:674  maybe_child = tunnel_info.process.lock().unwrap().take()
StopTunnelTake ==
    /\ st_pc = "take"
    /\ taken' = process
    /\ process' = None
    /\ st_pc' = "kill"
    /\ UNCHANGED <<new_child, is_running, restart_attempts, should_stop, mon_pc,
                   exits_detected, restarts, gave_up, connVars, lifeVars, msgVars,
                   startVars, sideVars>>

\* tunnel.rs:676-721  try_wait, kill and the bounded wait: the taken child is gone.
StopTunnelKill ==
    /\ st_pc = "kill"
    /\ taken' = None
    /\ st_pc' = "done"
    /\ UNCHANGED <<process, new_child, is_running, restart_attempts, should_stop, mon_pc,
                   exits_detected, restarts, gave_up, connVars, lifeVars, msgVars,
                   startVars, sideVars>>

\* The child that stop_tunnel has taken exits by itself before it is killed.
TakenChildExits ==
    /\ taken = "alive"
    /\ taken' = "exited"
    /\ UNCHANGED <<process, new_child, is_running, restart_attempts, should_stop, mon_pc,
                   st_pc, exits_detected, restarts, gave_up, connVars, lifeVars, msgVars,
                   startVars, sideVars>>

\* ------------------------------------------------------------ start_tunnel

\* What a line of the child's output is to the reader: a line without a URL, a line
\* URL_REGEX matches (tunnel.rs:14-16), a line that is no valid UTF-8 (next_line is Err).
LineKinds == {"log", "url", "bad"}

\* tunnel.rs:393-427  spawn cloudflared with piped stdout and stderr, take both pipes.
StartTunnelSpawn ==
    /\ ts_pc = "idle"
    /\ ts_pc' = "reading"
    /\ ts_child' = "alive"
    /\ UNCHANGED <<out_buf, err_buf, written, url_shown, ts_result, readerVars>>
    /\ UNCHANGED <<process, new_child, taken, is_running, restart_attempts, should_stop,
                   mon_pc, st_pc, exits_detected, restarts, gave_up, connVars, lifeVars,
                   msgVars, sideVars>>

\* The child writes a line to stdout.
ChildWritesStdout(kind) ==
    /\ ts_pc = "reading" /\ ts_child = "alive"
    /\ written < MaxLines
    /\ written' = written + 1
    /\ out_buf' = Append(out_buf, kind)
    /\ url_shown' = (url_shown \/ kind = "url")
    /\ UNCHANGED <<ts_pc, ts_child, err_buf, ts_result, readerVars>>
    /\ UNCHANGED <<process, new_child, taken, is_running, restart_attempts, should_stop,
                   mon_pc, st_pc, exits_detected, restarts, gave_up, connVars, lifeVars,
                   msgVars, sideVars>>

\* The child writes a line to stderr.
ChildWritesStderr(kind) ==
    /\ ts_pc = "reading" /\ ts_child = "alive"
    /\ written < MaxLines
    /\ written' = written + 1
    /\ err_buf' = Append(err_buf, kind)
    /\ url_shown' = (url_shown \/ kind = "url")
    /\ UNCHANGED <<ts_pc, ts_child, out_buf, ts_result, readerVars>>
    /\ UNCHANGED <<process, new_child, taken, is_running, restart_attempts, should_stop,
                   mon_pc, st_pc, exits_detected, restarts, gave_up, connVars, lifeVars,
                   msgVars, sideVars>>

\* The child exits while start_tunnel reads: both pipes are closed behind what it wrote.
ChildExitsDuringStart ==
    /\ ts_pc = "reading" /\ ts_child = "alive"
    /\ ts_child' = "exited"
    /\ UNCHANGED <<ts_pc, out_buf, err_buf, written, url_shown, ts_result, readerVars>>
    /\ UNCHANGED <<process, new_child, taken, is_running, restart_attempts, should_stop,
                   mon_pc, st_pc, exits_detected, restarts, gave_up, connVars, lifeVars,
                   msgVars, sideVars>>

\* next_line() of a pipe completes: a line is there, or the pipe is closed and drained.
Ready(buf) == buf # <<>> \/ ts_child = "exited"

\* tunnel.rs:493-496, 560-563 Ok(None): break, then 573-576 Err(UrlNotFound); 602-620
\* Ok(Err(e)): the child is taken and killed.
\* tunnel.rs:497-500, 564-567 Err(e) of next_line: StdioError, same arm of the match.
\* tunnel.rs:438-492, 505-559 a line with a URL: return Ok(url); 587-600 the TunnelInfo
\* gets the child and start_health_monitor spawns the monitor task.
\* `buf` is the pipe tokio::select! (tunnel.rs:435) took, `rest` what is left in it.
ReadOutcome(buf) ==
    IF buf = <<>> THEN "UrlNotFound"
    ELSE IF Head(buf) = "url" THEN "Url"
    ELSE IF Head(buf) = "bad" THEN "StdioError"
    ELSE "continue"

\* tunnel.rs:436-502  the stdout arm of select! in url_extraction, then 581-620.
ReadStdout ==
    /\ ts_pc = "reading"
    /\ Ready(out_buf)
    /\ LET outcome == ReadOutcome(out_buf) IN
       /\ out_buf' = IF outcome = "Url" THEN <<>> ELSE IF out_buf = <<>> THEN <<>> ELSE Tail(out_buf)
       /\ err_buf' = IF outcome = "Url" THEN <<>> ELSE err_buf
       /\ ts_pc' = IF outcome = "continue" THEN "reading" ELSE "done"
       /\ ts_result' = IF outcome = "continue" THEN ts_result ELSE outcome
       /\ ts_child' = CASE outcome = "continue" -> ts_child
                        [] outcome = "Url" -> None
                        [] OTHER -> "killed"
       /\ process' = IF outcome = "Url" THEN ts_child ELSE process
       /\ mon_pc' = IF outcome = "Url" THEN "loop" ELSE mon_pc
       /\ IF outcome = "Url" THEN ReaderSpawned ELSE UNCHANGED readerVars
    /\ UNCHANGED <<written, url_shown>>
    /\ UNCHANGED <<new_child, taken, is_running, restart_attempts, should_stop, st_pc,
                   exits_detected, restarts, gave_up, connVars, lifeVars, msgVars, sideVars>>

\* tunnel.rs:503-569  the stderr arm of select! in url_extraction, then 581-620.
ReadStderr ==
    /\ ts_pc = "reading"
    /\ Ready(err_buf)
    /\ LET outcome == ReadOutcome(err_buf) IN
       /\ err_buf' = IF outcome = "Url" THEN <<>> ELSE IF err_buf = <<>> THEN <<>> ELSE Tail(err_buf)
       /\ out_buf' = IF outcome = "Url" THEN <<>> ELSE out_buf
       /\ ts_pc' = IF outcome = "continue" THEN "reading" ELSE "done"
       /\ ts_result' = IF outcome = "continue" THEN ts_result ELSE outcome
       /\ ts_child' = CASE outcome = "continue" -> ts_child
                        [] outcome = "Url" -> None
                        [] OTHER -> "killed"
       /\ process' = IF outcome = "Url" THEN ts_child ELSE process
       /\ mon_pc' = IF outcome = "Url" THEN "loop" ELSE mon_pc
       /\ IF outcome = "Url" THEN ReaderSpawned ELSE UNCHANGED readerVars
    /\ UNCHANGED <<written, url_shown>>
    /\ UNCHANGED <<new_child, taken, is_running, restart_attempts, should_stop, st_pc,
                   exits_detected, restarts, gave_up, connVars, lifeVars, msgVars, sideVars>>

\* tunnel.rs:581-585 and 621-655  TUNNEL_START_TIMEOUT_SECS went by with url_extraction
\* pending (Timeout polls the future first: no pipe is ready): the child is taken and
\* killed, Err(Timeout).
StartTimesOut ==
    /\ ts_pc = "reading"
    /\ ~Ready(out_buf) /\ ~Ready(err_buf)
    /\ ts_pc' = "done"
    /\ ts_result' = "Timeout"
    /\ ts_child' = "killed"
    /\ UNCHANGED <<out_buf, err_buf, written, url_shown, readerVars>>
    /\ UNCHANGED <<process, new_child, taken, is_running, restart_attempts, should_stop,
                   mon_pc, st_pc, exits_detected, restarts, gave_up, connVars, lifeVars,
                   msgVars, sideVars>>

\* ------------------------------------------------------------ background reader

\* The child whose pipes the newest reader owns: the one restart_process has spawned, or
\* the one in the TunnelInfo slot, or the one stop_tunnel took out of it.
ReaderChild ==
    IF new_child # None THEN new_child
    ELSE IF process # None THEN process
    ELSE taken

\* The running child closes one of its two output streams.
ChildClosesStream(x) ==
    /\ rd_task # "none" /\ ReaderChild = "alive"
    /\ rd_pipe[x] = "open"
    /\ rd_pipe' = [rd_pipe EXCEPT ![x] = "eof"]
    /\ UNCHANGED <<rd_task, rd_read>>
    /\ UNCHANGED <<ts_pc, ts_child, out_buf, err_buf, written, url_shown, ts_result>>
    /\ UNCHANGED <<process, new_child, taken, is_running, restart_attempts, should_stop,
                   mon_pc, st_pc, exits_detected, restarts, gave_up, connVars, lifeVars,
                   msgVars, sideVars>>

\* The running child writes bytes that are no valid UTF-8 line to one stream: the
\* next_line() that meets them is Err.
ChildWritesBadLine(x) ==
    /\ rd_task # "none" /\ ReaderChild = "alive"
    /\ rd_pipe[x] = "open"
    /\ rd_pipe' = [rd_pipe EXCEPT ![x] = "error"]
    /\ UNCHANGED <<rd_task, rd_read>>
    /\ UNCHANGED <<ts_pc, ts_child, out_buf, err_buf, written, url_shown, ts_result>>
    /\ UNCHANGED <<process, new_child, taken, is_running, restart_attempts, should_stop,
                   mon_pc, st_pc, exits_detected, restarts, gave_up, connVars, lifeVars,
                   msgVars, sideVars>>

\* tunnel.rs:257-259, 272-274, 456-458, 471-473, 523-525, 538-540  Ok(Some(line)): the child wrote a line
\* to stream x, the reader logs it and loops.
ReaderLogsLine(x) ==
    /\ rd_task = "reading" /\ ReaderChild = "alive"
    /\ rd_pipe[x] = "open"
    /\ rd_read < MaxLines
    /\ rd_read' = rd_read + 1
    /\ UNCHANGED <<rd_task, rd_pipe>>
    /\ UNCHANGED <<ts_pc, ts_child, out_buf, err_buf, written, url_shown, ts_result>>
    /\ UNCHANGED <<process, new_child, taken, is_running, restart_attempts, should_stop,
                   mon_pc, st_pc, exits_detected, restarts, gave_up, connVars, lifeVars,
                   msgVars, sideVars>>

\* tunnel.rs:260-267, 275-282, 459-466, 474-481, 526-533, 541-548  Ok(None) or Err(e)
\* of the next_line() of stream x: break. The task ends and drops both readers. A stream is at its end
\* when the child closed it or is gone.
ReaderBreaks(x) ==
    /\ rd_task = "reading"
    /\ rd_pipe[x] # "open" \/ ReaderChild # "alive"
    /\ rd_task' = "ended"
    /\ UNCHANGED <<rd_pipe, rd_read>>
    /\ UNCHANGED <<ts_pc, ts_child, out_buf, err_buf, written, url_shown, ts_result>>
    /\ UNCHANGED <<process, new_child, taken, is_running, restart_attempts, should_stop,
                   mon_pc, st_pc, exits_detected, restarts, gave_up, connVars, lifeVars,
                   msgVars, sideVars>>

TunNext ==
    \/ MonitorLoop
    \/ MonitorTick
    \/ MonitorRestartSpawn
    \/ MonitorRestartStore
    \/ NewChildExits
    \/ MonitorRestartFails
    \/ ChildExits
    \/ StopTunnelSignal
    \/ StopTunnelTake
    \/ StopTunnelKill
    \/ TakenChildExits

\* ================================================================= specifications

\* A server that is up: run 1 went through start_server, launch_server_runtime and
\* run_servers, its tunnel came up, and no stop was issued.
LifeServing ==
    /\ server_handle = Some(1)
    /\ runtime_handle = Some(1)
    /\ host = TRUE
    /\ current_session_id = Some(1)
    /\ tunnel_info = Some(<<"Ok", 1>>)
    /\ db_pool = TRUE
    /\ run_pc = [r \in Runs |-> IF r = 1 THEN "serving" ELSE "unborn"]
    /\ listeners = [r \in Runs |-> IF r = 1 THEN "accepting" ELSE "unbound"]
    /\ tunnel_task = [r \in Runs |-> "none"]
    /\ child = [r \in Runs |-> IF r = 1 THEN "alive" ELSE "none"]
    /\ stop_task = [r \in Runs |-> "none"]
    /\ stop_target = [r \in Runs |-> 0]
    /\ end_task = [r \in Runs |-> "none"]
    /\ end_target = [r \in Runs |-> 0]
    /\ stoptun_task = [r \in Runs |-> "none"]
    /\ stoptun_target = [r \in Runs |-> 0]
    /\ session_row = [r \in Runs |-> IF r = 1 THEN "open" ELSE "none"]
    /\ ctl_pc = "idle"
    /\ ctl_sh = NoneOpt
    /\ ctl_rt = NoneOpt
    /\ life_result = None
    /\ last_event = <<TRUE, "Running">>
    /\ runs_started = 1
    /\ stop_accepted = {}

\* Sessions and the connection manager of a server that is up; the operator has
\* configured some limit (connection.rs:114-126 accepts any limit >= 1).
Init ==
    /\ ConnInit
    /\ max_connections \in 1..MaxLimit
    /\ app_handle = TRUE
    /\ LifeServing
    /\ TunInit
    /\ MsgInit

Next ==
    \/ \E s \in Sessions : Connect(s)
    \/ \E s \in Sessions : AddReadCount(s)
    \/ \E s \in Sessions : AddReject(s)
    \/ \E s \in Sessions : AddIncrement(s)
    \/ \E s \in Sessions : AddInsert(s)
    \/ \E s \in Sessions : AddEmit(s)
    \/ \E s \in Sessions : RecvPingPong(s)
    \/ \E s \in Sessions : RecvStop(s)
    \/ \E s \in Sessions : RecvErrorStop(s)
    \/ \E s \in Sessions : HbTick(s)
    \/ \E s \in Sessions : Stopped(s)
    \/ \E t \in Threads : RemoveLookup(t)
    \/ \E t \in Threads : RemoveDecrement(t)
    \/ \E t \in Threads : RemoveEmit(t)
    \/ \E id \in Sessions : DisconnectClient(id)

Spec == Init /\ [][Next]_vars

\* The manager's calls made one at a time: a thread takes a step only while no other
\* thread is inside add_client or remove_client.
Alone(t) == \A u \in Threads \ {t} : ~InManagerCall(u)

SeqNext ==
    \/ \E s \in Sessions : Alone(s) /\ Connect(s)
    \/ \E s \in Sessions : Alone(s) /\ AddReadCount(s)
    \/ \E s \in Sessions : Alone(s) /\ AddReject(s)
    \/ \E s \in Sessions : Alone(s) /\ AddIncrement(s)
    \/ \E s \in Sessions : Alone(s) /\ AddInsert(s)
    \/ \E s \in Sessions : Alone(s) /\ AddEmit(s)
    \/ \E s \in Sessions : Alone(s) /\ RecvPingPong(s)
    \/ \E s \in Sessions : Alone(s) /\ RecvStop(s)
    \/ \E s \in Sessions : Alone(s) /\ RecvErrorStop(s)
    \/ \E s \in Sessions : Alone(s) /\ HbTick(s)
    \/ \E s \in Sessions : Alone(s) /\ Stopped(s)
    \/ \E t \in Threads : Alone(t) /\ RemoveLookup(t)
    \/ \E t \in Threads : Alone(t) /\ RemoveDecrement(t)
    \/ \E t \in Threads : Alone(t) /\ RemoveEmit(t)
    \/ \E id \in Sessions : Alone(Operator) /\ DisconnectClient(id)

SeqSpec == Init /\ [][SeqNext]_vars

\* The sessions of Spec with text frames that do not parse and binary frames.
FrameNext ==
    \/ Next
    \/ \E s \in Sessions : RecvTextBad(s)
    \/ \E s \in Sessions : RecvBinary(s)

FrameSpec == Init /\ [][FrameNext]_vars

\* One start_tunnel call from a state without tunnel, and the supervision of the tunnel
\* it returns.
StartSpecInit ==
    /\ ConnInit
    /\ max_connections = MaxLimit
    /\ app_handle = TRUE
    /\ LifeInit
    /\ db_pool = TRUE
    /\ TunIdle
    /\ MsgInit

StartNext ==
    \/ StartTunnelSpawn
    \/ \E kind \in LineKinds : ChildWritesStdout(kind)
    \/ \E kind \in LineKinds : ChildWritesStderr(kind)
    \/ ChildExitsDuringStart
    \/ ReadStdout
    \/ ReadStderr
    \/ StartTimesOut
    \/ ts_result = "Url" /\ TunNext

StartSpec == StartSpecInit /\ [][StartNext]_vars

\* Sessions of a server that is up while the limit is set, through the command and
\* through the manager's own function; set_app_handle may or may not have been called.
LimitInit ==
    /\ ConnInit
    /\ max_connections \in 1..MaxLimit
    /\ app_handle \in BOOLEAN
    /\ LifeServing
    /\ TunInit
    /\ MsgInit

LimitNext ==
    \/ Next
    \/ \E max \in LimitArgs : SetConnectionLimits(max)
    \/ \E max \in LimitArgs : SetMaxConnections(max)
    \/ SetMaxEmit
    \/ SetMaxPanics

LimitSpec == LimitInit /\ [][LimitNext]_vars

\* The same with the operator's thread scheduled: a set_max_connections call that can
\* take its next step takes it.
LimitLiveSpec == LimitInit /\ [][LimitNext]_vars /\ WF_vars(SetMaxEmit)

\* server_manager.rs:365-377: the session actors and the save tasks live on the runtime of
\* the run; they are gone when the launcher thread drops it.
ActorsLive == \E r \in Runs : RuntimeAlive(r)

\* Clients connect and chat while the operator stops the server that is up (the status
\* event and the tunnel stop of the shut-down are left to LifeSpec).
ServeNext ==
    \/ \E s \in Sessions : ActorsLive /\ Connect(s)
    \/ \E s \in Sessions : ActorsLive /\ AddReadCount(s)
    \/ \E s \in Sessions : ActorsLive /\ AddReject(s)
    \/ \E s \in Sessions : ActorsLive /\ AddIncrement(s)
    \/ \E s \in Sessions : ActorsLive /\ AddInsert(s)
    \/ \E s \in Sessions : ActorsLive /\ AddEmit(s)
    \/ \E s \in Sessions : ActorsLive /\ RecvChat(s)
    \/ \E s \in Sessions : ActorsLive /\ BroadcastLock(s)
    \/ \E s \in Sessions : ActorsLive /\ BroadcastSend(s)
    \/ \E s \in Sessions : ActorsLive /\ BroadcastDone(s)
    \/ ActorsLive /\ SaveDone
    \/ ActorsLive /\ SaveFails
    \/ StopServerTake
    \/ StopServerRunning
    \/ CommandReturns
    \/ \E r \in Runs : StopTaskSignal(r)
    \/ \E r \in Runs : EndSessionTask(r)
    \/ \E r \in Runs : ServersJoined(r)
    \/ \E r \in Runs : CleanupServerResources(r)

ServeSpec == Init /\ [][ServeNext]_vars

\* Sessions that exchange frames: the limit lets every session in or not, and the app
\* handle is there or not (without it a session has neither session id nor pool).
ChatInit ==
    /\ ConnInit
    /\ max_connections \in 1..NumSessions
    /\ app_handle \in BOOLEAN
    /\ LifeServing
    /\ TunInit
    /\ MsgInit

ChatNext ==
    \/ \E s \in Sessions : Connect(s)
    \/ \E s \in Sessions : AddReadCount(s)
    \/ \E s \in Sessions : AddReject(s)
    \/ \E s \in Sessions : AddIncrement(s)
    \/ \E s \in Sessions : AddInsert(s)
    \/ \E s \in Sessions : AddEmit(s)
    \/ \E s \in Sessions : RecvStop(s)
    \/ \E s \in Sessions : Stopped(s)
    \/ \E t \in Threads : RemoveLookup(t)
    \/ \E t \in Threads : RemoveDecrement(t)
    \/ \E t \in Threads : RemoveEmit(t)
    \/ \E s \in Sessions : RecvTextBad(s)
    \/ \E s \in Sessions : RecvChat(s)
    \/ \E s \in Sessions : BroadcastLock(s)
    \/ \E s \in Sessions : BroadcastSend(s)
    \/ \E s \in Sessions : BroadcastDone(s)
    \/ SaveDone
    \/ SaveFails
    \/ \E s \in Sessions, limit \in SmallLimits : RecvGetHistory(s, limit)
    \/ \E s \in Sessions, n \in SmallRows : HistoryReply(s, n)
    \/ \E s \in Sessions : HistoryFails(s)

ChatSpec == ChatInit /\ [][ChatNext]_vars

\* The history fetch over the limits and row counts around the default and the clamp.
HistoryNext ==
    \/ \E s \in Sessions : Connect(s)
    \/ \E s \in Sessions : AddReadCount(s)
    \/ \E s \in Sessions : AddReject(s)
    \/ \E s \in Sessions : AddIncrement(s)
    \/ \E s \in Sessions : AddInsert(s)
    \/ \E s \in Sessions : AddEmit(s)
    \/ \E s \in Sessions, limit \in HistLimits : RecvGetHistory(s, limit)
    \/ \E s \in Sessions, n \in HistRows : HistoryReply(s, n)
    \/ \E s \in Sessions, n \in HistRows : HistoryPanics(s, n)
    \/ \E s \in Sessions : HistoryFails(s)

HistorySpec == ChatInit /\ [][HistoryNext]_vars

\* The server lifecycle from a freshly started application: nothing runs, the database
\* pool may or may not have been initialised (lib.rs sets it asynchronously).
LifeSpecInit ==
    /\ ConnInit
    /\ max_connections = MaxLimit
    /\ app_handle = FALSE
    /\ LifeInit
    /\ db_pool \in BOOLEAN
    /\ TunIdle
    /\ MsgInit

LifeSpec == LifeSpecInit /\ [][LifeNext]_vars

\* The tunnel supervisor of a server that is up.
TunnelSpecInit ==
    /\ ConnInit
    /\ max_connections = MaxLimit
    /\ app_handle = TRUE
    /\ LifeServing
    /\ TunInit
    /\ MsgInit

TunnelSpec == TunnelSpecInit /\ [][TunNext]_vars

\* ============================================================ connection claims

\* No thread is inside add_client or remove_client.
Quiescent == \A t \in Threads : ~InManagerCall(t)

\* C1. With add_client / remove_client called one at a time (SeqSpec): whenever no call is
\* in progress the global counter equals the number of registry entries, and add_client
\* goes on to admit (and so to return true) only from a state in which the counter is
\* below max_connections; a session that got true was counted exactly once.
C1_CounterMatchesRegistry ==
    /\ [](Quiescent => CONNECTIONS_COUNT = Cardinality(connections))
    /\ [](\A s \in Sessions : add_result[s] = Some(TRUE) => incs[s] = 1)
    /\ [][\A s \in Sessions :
            (pc[s] = "add_check" /\ pc'[s] = "add_insert")
                => CONNECTIONS_COUNT < max_connections]_vars

\* One client was admitted and later removed, another was refused at the limit.
C1_Witness ==
    /\ Quiescent
    /\ \E a, b \in Sessions :
        /\ add_result[a] = Some(TRUE) /\ decs[a] = 1
        /\ add_result[b] = Some(FALSE)
    /\ CONNECTIONS_COUNT = 0

\* Some thread has removed client id's registry entry and not yet decremented the counter.
PendingDecrement(id) == \E t \in Threads : pc[t] = "rm_dec" /\ rm_id[t] = id

\* C2. The counter is never decremented twice for one client, and once an admitted
\* session is Closed - by a close frame, an error, a heartbeat timeout, with or without
\* an operator disconnect - its registry entry is gone and its single decrement has been
\* made or is the next statement of the remove_client call that removed the entry.
C2_ClosedRemovedOnce ==
    \A s \in Sessions :
        /\ decs[s] <= 1
        /\ (state[s] = "Closed" /\ add_result[s] = Some(TRUE))
              => /\ s \notin connections
                 /\ (decs[s] = 1) # PendingDecrement(s)

\* An admitted session has reached Closed with its decrement made, the operator having
\* issued no command.
C2_Witness ==
    \E s \in Sessions :
        /\ state[s] = "Closed" /\ add_result[s] = Some(TRUE)
        /\ decs[s] = 1 /\ cmd_result = NoneOpt /\ pc[Operator] = "idle"

\* C3. A session is Active only after add_client returned true. A session whose
\* add_client returned false was sent exactly one rejection, is Closing or Closed, has
\* never been Active, never been in the registry and never been counted; nobody else is
\* sent a rejection.
C3_ActiveOnlyIfAdmitted ==
    \A s \in Sessions :
        /\ state[s] = "Active" => add_result[s] = Some(TRUE)
        /\ add_result[s] = Some(FALSE)
              => /\ rejects[s] = 1
                 /\ state[s] \in {"Closing", "Closed"}
                 /\ ~was_active[s] /\ ~ever_registered[s] /\ incs[s] = 0 /\ decs[s] = 0
                 /\ client_info[s] = NoneOpt
        /\ add_result[s] # Some(FALSE) => rejects[s] = 0

\* One session is Active while another one was refused and has reached Closed.
C3_Witness ==
    \E a, b \in Sessions :
        /\ state[a] = "Active"
        /\ add_result[b] = Some(FALSE) /\ state[b] = "Closed"

\* ============================================================= lifecycle claims

C5_StopWhenNotRunning ==
    [][(ctl_pc = "stop_branch" /\ ctl_sh = NoneOpt /\ ctl_pc' = "returned")
          => /\ life_result' = "NotRunning"
             /\ last_event' # NoneOpt /\ last_event'[1] = FALSE]_vars

\* C6. In every state the current session id is set exactly when the listeners of some
\* run are bound and accepting connections.
C6_SessionIdIffAccepting ==
    (current_session_id # NoneOpt) <=> (\E r \in Runs : listeners[r] = "accepting")

\* run_servers of run r is past a failed bind (server_manager.rs:740-754) and about to
\* clean up.
BindFailed(r) == run_pc[r] = "cleanup" /\ listeners[r] = "unbound"

\* C7. When a bind failed and run_servers has returned, nothing of the attempt is left:
\* no listener handles, runtime handle, host and ports, session id, tunnel info or
\* cloudflared child.
C7_BindFailureLeavesNothing ==
    [][\A r \in Runs :
          (BindFailed(r) /\ run_pc'[r] = "dead")
              => /\ server_handle' = NoneOpt /\ runtime_handle' = NoneOpt /\ ~host'
                 /\ current_session_id' = NoneOpt
                 /\ tunnel_info' = NoneOpt
                 /\ child'[r] # "alive"
                 /\ listeners'[r] = "unbound"]_vars

\* Everything run h and the stop_server call set in motion has finished: the launcher
\* thread has ended and with it the runtime and its tasks, the command has returned, and
\* no later start was issued.
StopSettled(h) == run_pc[h] = "dead" /\ ctl_pc = "idle" /\ runs_started = h

\* C8. Once a stop_server call that was accepted on a serving run has run its course, the
\* session id is cleared, the session row is ended, the cloudflared child is gone and no
\* tunnel info is held, the listeners are shut down and the last status event carries
\* is_running = false.
C8_StopCompletes ==
    \A h \in stop_accepted :
        StopSettled(h)
            => /\ current_session_id = NoneOpt
               /\ session_row[h] = "ended"
               /\ child[h] # "alive" /\ tunnel_info = NoneOpt
               /\ listeners[h] = "unbound"
               /\ last_event # NoneOpt /\ last_event[1] = FALSE

\* ================================================================ tunnel claims

\* C9. The supervisor makes at most MAX_RESTART_ATTEMPTS restarts, and once it has stopped
\* retrying the tunnel status of the status event is "Failed".
C9_RestartBoundThenFailed ==
    /\ restarts <= MAX_RESTART_ATTEMPTS
    /\ gave_up => TunnelStatus(server_handle, tunnel_info) = "Failed"

\* C10. Every health check that finds the child gone while restart_attempts is below
\* MAX_RESTART_ATTEMPTS increments the counter and goes on to restart.
C10_RestartWhileBelowLimit ==
    [][(mon_pc = "tick" /\ mon_pc' # "tick" /\ process # "alive"
            /\ restart_attempts < MAX_RESTART_ATTEMPTS)
          => /\ restart_attempts' = restart_attempts + 1
             /\ mon_pc' = "sleep"]_vars

\* C11. Once stop_tunnel has set should_stop the health loop makes no further restart
\* and spawns no new child, and when stop_tunnel has completed the child it took is gone
\* and no child runs in the slot.
C11_StopTunnelEndsSupervision ==
    /\ [](st_pc = "done" => (taken = None /\ process # "alive"))
    /\ [][should_stop => (restarts' = restarts /\ (new_child' = "alive" => new_child = "alive"))]_vars

\* ================================================================ frame claims

\* The step of s is a turn of its heartbeat interval (session.rs:105-124).
HbStep(s) ==
    /\ Receiving(s)
    /\ \/ hb_ticks'[s] = hb_ticks[s] + 1
       \/ pc'[s] = "rm" /\ rm_from'[s] = "hb"

\* C12. At each heartbeat tick an Active session is closed if and only if no inbound frame
\* of any kind (pong, ping, text, binary) arrived within CLIENT_TIMEOUT before the tick;
\* otherwise it is pinged and stays Active.
C12_TimeoutIffSilent ==
    [][\A s \in Sessions :
         HbStep(s) => ((pc'[s] = "rm") <=> TimedOut(since_frame[s] + 1))]_vars

\* C13. An inbound binary frame and an inbound continuation frame are each answered with
\* one error response, after which the session is closed: neither leaves it Active.
C13_UnsupportedFrameCloses ==
    [][\A s \in Sessions :
         (\E kind \in {"binary", "continuation"} :
              errors_sent'[s] = Append(errors_sent[s], kind))
             => state'[s] # "Active"]_vars

\* C14. A text frame that does not parse is answered with exactly one error response to
\* its sender and nothing else: no other client gets anything, nothing is broadcast or
\* saved, the registry is untouched and the sender stays Active.
C14_BadTextOnlyAnswered ==
    [][\A s \in Sessions :
         errors_sent'[s] = Append(errors_sent[s], "parse")
             => /\ state'[s] = "Active" /\ pc'[s] = "idle"
                /\ \A r \in Sessions \ {s} : errors_sent'[r] = errors_sent[r]
                /\ UNCHANGED <<connections, CONNECTIONS_COUNT, chats, bcasts, bc_attempts,
                               delivered, save, saved_rows, hist, last_reply>>]_vars

\* MaxFrames bad text frames in a row from one client, which is still Active and
\* registered.
C14_Witness ==
    \E s \in Sessions :
        /\ errors_sent[s] = [i \in 1..MaxFrames |-> "parse"]
        /\ state[s] = "Active"
        /\ s \in connections

\* ============================================================ broadcast claims

\* C15. A broadcast makes exactly one delivery attempt for each client that is registered
\* when the call takes the registry, whatever becomes of the single deliveries: while the
\* loop runs the registry is the one it started with, every step attempts one client not
\* attempted before, and the loop ends only when every one of them was attempted.
C15_BroadcastAttemptsAll ==
    /\ [](\A s \in Sessions : pc[s] = "bc_loop" => bc_reg[s] = connections)
    /\ [](\A s \in Sessions : bc_attempts[s] \cup bc_todo[s] \subseteq bc_reg[s])
    /\ [](\A s \in Sessions : pc[s] # "bc_loop" => bc_attempts[s] = bc_reg[s])
    /\ [][\A s \in Sessions :
            (pc[s] = "bc_loop" /\ bc_attempts'[s] # bc_attempts[s])
                => \E r \in bc_reg[s] \ bc_attempts[s] :
                       bc_attempts'[s] = bc_attempts[s] \cup {r}]_vars

\* A finished broadcast to NumSessions registered clients in which a delivery failed.
C15_Witness ==
    \E s \in Sessions :
        /\ bcasts[s] > 0
        /\ pc[s] = "idle"
        /\ Cardinality(bc_reg[s]) = NumSessions
        /\ bc_attempts[s] = bc_reg[s]
        /\ delivered[s] # bc_attempts[s]

\* ============================================================== history claims

\* C16. A GetHistory with limit k >= 1 over n stored messages is answered with exactly k
\* messages and has_more = true when n >= k + 1, and with all n messages and
\* has_more = false when n <= k.  (last_reply holds <<limit, n, count, has_more>>.)
C16_HistoryPagination ==
    \A s \in Sessions :
        (last_reply[s] # NoneOpt /\ last_reply[s][1][1] # NoneOpt
                                 /\ last_reply[s][1][1][1] >= 1)
            => LET k == last_reply[s][1][1][1]
                   n == last_reply[s][1][2]
                   count == last_reply[s][1][3]
                   more == last_reply[s][1][4]
               IN  /\ n >= k + 1 => (count = k /\ more)
                   /\ n <= k => (count = n /\ ~more)

\* The step handles a GetHistory of s or answers one: a fetch starts or ends, a
\* HistoryData reply or a history error goes out.
HistoryStep(s) ==
    \/ hist'[s] # hist[s]
    \/ last_reply'[s] # last_reply[s]
    \/ errors_sent'[s] = Append(errors_sent[s], "history")

\* C17. The answer to a GetHistory, HistoryData or error, goes to the requesting session
\* only: the step starts no broadcast, attempts no delivery, saves nothing, and leaves
\* the registry and what every other client has received as they were.
C17_HistoryToRequesterOnly ==
    [][\A s \in Sessions :
         (HistoryStep(s) /\ \A r \in Sessions \ {s} : hist'[r] = hist[r])
             => /\ \A r \in Sessions \ {s} :
                       last_reply'[r] = last_reply[r] /\ errors_sent'[r] = errors_sent[r]
                /\ pc'[s] = pc[s]
                /\ UNCHANGED <<connections, CONNECTIONS_COUNT, client_info, chats, bcasts,
                               bc_attempts, delivered, save, saved_rows>>]_vars

\* A session got its HistoryData and another got a history error while both are
\* registered: neither has anything of the other's answer.
C17_Witness ==
    \E s, r \in Sessions :
        /\ s # r
        /\ {s, r} \subseteq connections
        /\ last_reply[s] # NoneOpt /\ errors_sent[s] = <<>>
        /\ last_reply[r] = NoneOpt /\ errors_sent[r] = <<"history">>

\* C18. Every Chat or Superchat frame handled is broadcast, whatever becomes of its save:
\* each one leads to one call of broadcast (made, or waiting for the registry), handling it
\* sends no error to anybody, and the end of a save, written or failed, changes neither
\* the broadcasts nor what the clients are sent.
C18_BroadcastWhateverTheSave ==
    /\ [](\A s \in Sessions : chats[s] = bcasts[s] + (IF pc[s] = "bc" THEN 1 ELSE 0))
    /\ [][(chats' # chats \/ bcasts' # bcasts \/ save' # save)
              => errors_sent' = errors_sent]_vars
    /\ [][save' < save
              => UNCHANGED <<pc, bcasts, bc_todo, bc_attempts, delivered>>]_vars

\* Two chat messages were broadcast and delivered; the save of one has failed and the
\* save of the other is still in flight; no error was sent.
C18_Witness ==
    \E s, r \in Sessions :
        /\ s # r
        /\ bcasts[s] = 1 /\ bcasts[r] = 1
        /\ pc[s] = "idle" /\ pc[r] = "idle"
        /\ delivered[s] # {} /\ delivered[r] # {}
        /\ save = 1 /\ saved_rows = 0
        /\ errors_sent = [x \in Sessions |-> <<>>]

\* ============================================================== registry claims

\* The step is the registry lookup of the remove_client call of thread t.
RemoveLookupStep(t) == pc[t] = "rm" /\ pc'[t] # "rm"

\* C19. remove_client is idempotent: a call that finds the id removes the entry,
\* decrements the counter by one and returns true; a call for an id that is not (or no
\* longer) registered changes neither the registry nor the counter and returns false; no
\* client is ever counted down twice.
C19_RemoveIdempotent ==
    /\ [](\A id \in Sessions : decs[id] <= 1)
    /\ [][\A t \in Threads :
            RemoveLookupStep(t)
                => IF rm_id[t] \in connections
                   THEN connections' = connections \ {rm_id[t]} /\ pc'[t] = "rm_dec"
                   ELSE /\ UNCHANGED <<connections, CONNECTIONS_COUNT, decs>>
                        /\ pc'[t] \notin {"rm_dec", "rm_emit"}
                        /\ t = Operator => cmd_result' = Some(FALSE)]_vars
    /\ [][\A t \in Threads :
            (pc[t] = "rm_dec" /\ pc'[t] # "rm_dec")
                => /\ CONNECTIONS_COUNT' = CONNECTIONS_COUNT - 1
                   /\ decs'[rm_id[t]] = decs[rm_id[t]] + 1
                   /\ pc'[t] = "rm_emit"]_vars
    /\ [][\A t \in Threads :
            (pc[t] = "rm_emit" /\ pc'[t] # "rm_emit")
                => /\ UNCHANGED <<connections, CONNECTIONS_COUNT, decs>>
                   /\ t = Operator => cmd_result' = Some(TRUE)]_vars

\* The operator has disconnected a client twice: the session is still Active, so it was
\* the first disconnect that removed it and counted it down, and the second has
\* returned false.
C19_Witness ==
    /\ pc[Operator] = "idle"
    /\ cmd_result = Some(FALSE)
    /\ rm_id[Operator] \in Sessions
    /\ decs[rm_id[Operator]] = 1
    /\ state[rm_id[Operator]] = "Active"
    /\ Quiescent
    /\ CONNECTIONS_COUNT = Cardinality(connections)

C21_SessionRowEndedWithRun ==
    \A r \in Runs :
        /\ run_pc[r] = "serving" => session_row[r] # "none"
        /\ (run_pc[r] = "dead" /\ session_row[r] # "none") => session_row[r] = "ended"

\* C22. Every message handed to the save carries a session id, and that id is the id of
\* a session whose row was created and not yet ended when the message was received.
C22_SavedUnderLiveSession ==
    \A m \in handed : m[1] # NoneOpt /\ m[2] = "open"

\* ========================================================== tunnel start claims

\* C23. When start_tunnel has returned: UrlNotFound or Timeout only if the child had
\* written no URL (it exited first, or the start timeout went by), in which case the child
\* is killed and no health monitor runs; and whenever the child did write a URL to stdout
\* or stderr the call returned it (read errors of the pipes set aside).
C23_StartTunnelOutcome ==
    ts_pc = "done"
        => /\ ts_result \in {"UrlNotFound", "Timeout"}
                => /\ ~url_shown
                   /\ ts_child = "killed" /\ process = None /\ mon_pc = "stopped"
           /\ ts_result = "Url" => url_shown
           /\ (url_shown /\ ts_result # "StdioError") => ts_result = "Url"

\* ============================================================== network claims

\* Start-up and shut-down of the server together with the NAT probe of each run.
ProbeSpecInit ==
    /\ ConnInit
    /\ max_connections = MaxLimit
    /\ app_handle = FALSE
    /\ LifeInit
    /\ db_pool = TRUE
    /\ TunIdle
    /\ MsgInit

ProbeNext ==
    \/ StartAllowed /\ StartServerSpawn
    \/ \E r \in Runs : LaunchRuntime(r)
    \/ \E r \in Runs : BindListeners(r)
    \/ \E r \in Runs : BindFails(r)
    \/ \E r \in Runs : StoreHandles(r)
    \/ \E r \in Runs : StoreSessionId(r)
    \/ \E r \in Runs : CreateSessionOk(r)
    \/ \E r \in Runs : ServersJoined(r)
    \/ \E r \in Runs : CleanupServerResources(r)
    \/ \E r \in Runs : StopTaskSignal(r)
    \/ StopServerTake
    \/ StopServerRunning
    \/ CommandReturns
    \/ \E r \in Runs, ip \in IpAddrs : ProbeFetchOk(r, ip)
    \/ \E r \in Runs : ProbeFetchFails(r)
    \/ \E r \in Runs, reply \in StunReplies : ProbeStun(r, reply)

ProbeSpec == ProbeSpecInit /\ [][ProbeNext]_vars

\* C24: a failure of the NAT probe is recorded on the safe side and touches nothing
\* else. The probe step that ends on a failed public-address fetch leaves
\* cgnat_detected and global_ip_fetch_failed both true; the step that ends on a failed
\* STUN check leaves cgnat_detected true; neither step changes a launcher thread's
\* position, a listener, the stored handles or any other part of the server's state.
C24_ProbeFailsSafe ==
    [][\A r \in Runs :
          /\ (probe_task[r] = "fetching" /\ probe_task'[r] = "done")
                => /\ cgnat_detected' /\ global_ip_fetch_failed'
                   /\ UNCHANGED lifeButEvent
          /\ (probe_task[r] = "stun" /\ probe_task'[r] = "done" /\ probe_out' = Some(Err))
                => /\ cgnat_detected'
                   /\ UNCHANGED lifeButEvent]_vars

\* A run whose probe failed on the STUN check after a good fetch is serving clients.
C24_Witness ==
    \E r \in Runs :
        /\ probe_task[r] = "done" /\ probe_out = Some(Err)
        /\ cgnat_detected /\ ~global_ip_fetch_failed
        /\ run_pc[r] = "serving" /\ listeners[r] = "accepting"

\* C25: when the STUN server answered with a success response that carries a
\* reflexive address, check_cgnat returns Ok(false) if that address equals public_ip
\* and Ok(true) if it differs.
C25_CheckCgnat ==
    probe_reply # NoneOpt =>
        LET public_ip == probe_reply[1][1]
            reply == probe_reply[1][2]
        IN (reply.created /\ reply.answered /\ reply.class = "SuccessResponse"
                /\ reply.xor_mapped # NoneOpt)
              => probe_out = Some(Ok(reply.xor_mapped[1] # public_ip))

\* The STUN server saw the same number in the other address family: CGNAT is reported.
C25_Witness ==
    /\ probe_reply # NoneOpt
    /\ probe_reply[1][2].xor_mapped # NoneOpt
    /\ probe_reply[1][2].xor_mapped[1][2] = probe_reply[1][1][2]
    /\ probe_reply[1][2].xor_mapped[1][1] # probe_reply[1][1][1]
    /\ probe_out = Some(Ok(TRUE))

\* ============================================================== message claims

\* One message of every shape a client can build, sent through a serving session.
CodecSpecInit ==
    /\ ConnInit
    /\ max_connections = MaxLimit
    /\ app_handle = TRUE
    /\ LifeServing
    /\ TunRunning
    /\ ProbeIdle
    /\ FifoIdle
    /\ WalletIdle
    /\ MoreIdle
    /\ MsgInit
    /\ cm_pc = "made"
    /\ cm_in \in ({<<"Chat", m>> : m \in ChatMessages}
                    \cup {<<"Superchat", m>> : m \in SuperchatMessages})
    /\ cm_wire = NoneOpt
    /\ cm_parsed = NoneOpt
    /\ cm_row = NoneOpt
    /\ cm_payload = NoneOpt
    /\ cm_out = NoneOpt

CodecNext == ClientSends \/ ServerParses \/ ServerHandles \/ ClientReads

CodecSpec == CodecSpecInit /\ [][CodecNext]_vars

\* C26: a ChatMessage or a SuperchatMessage that went from its sender through the
\* server to a receiving client was parsed by the server as a ClientMessage of its own
\* kind, and the receiver reads from the broadcast payload the id, display_name and
\* content that were sent and, for a superchat, the amount, coin, tx_hash and
\* wallet_address that were sent.
C26_RoundTrip ==
    cm_pc \in {"handled", "read"} =>
        /\ cm_parsed[1][1] = cm_in[1]
        /\ cm_pc = "read" =>
              /\ cm_out[1] # NoneOpt
              /\ cm_out[1][1].id = cm_in[2].id
              /\ cm_out[1][1].display_name = cm_in[2].display_name
              /\ cm_out[1][1].content = cm_in[2].content
              /\ cm_in[1] = "Superchat" => cm_out[1][1].superchat = cm_in[2].superchat

\* C27: a message the server saves and broadcasts as a superchat has an amount above
\* zero and a non-empty coin, tx_hash and wallet_address, and a message it saves and
\* broadcasts as a plain chat carries no coin, tx_hash or wallet_address and no
\* superchat data.
C27_SuperchatIffValid ==
    cm_pc \in {"handled", "read"} =>
        /\ cm_parsed[1][1] = "Superchat" =>
              /\ cm_row[1].amount[1][1] = "fin" /\ cm_row[1].amount[1][2] > 0
              /\ cm_row[1].coin # Some(<<>>)
              /\ cm_row[1].tx_hash # Some(<<>>)
              /\ cm_row[1].wallet_address # Some(<<>>)
        /\ cm_parsed[1][1] = "Chat" =>
              /\ cm_row[1].coin = NoneOpt
              /\ cm_row[1].tx_hash = NoneOpt
              /\ cm_row[1].wallet_address = NoneOpt
              /\ cm_payload[1].superchat = Absent

\* Sessions that connect, send chats, take the broadcasts out of their mailboxes and
\* leave.
FifoInit ==
    /\ ConnInit
    /\ max_connections = NumSessions
    /\ app_handle = TRUE
    /\ LifeServing
    /\ TunInit
    /\ MsgInit

FifoNext ==
    \/ \E s \in Sessions : Connect(s)
    \/ \E s \in Sessions : AddReadCount(s)
    \/ \E s \in Sessions : AddIncrement(s)
    \/ \E s \in Sessions : AddInsert(s)
    \/ \E s \in Sessions : AddEmit(s)
    \/ \E s \in Sessions : RecvStop(s)
    \/ \E s \in Sessions : Stopped(s)
    \/ \E t \in Threads : RemoveLookup(t)
    \/ \E t \in Threads : RemoveDecrement(t)
    \/ \E t \in Threads : RemoveEmit(t)
    \/ \E s \in Sessions : RecvChat(s)
    \/ \E s \in Sessions : BroadcastLock(s)
    \/ \E s \in Sessions : BroadcastSend(s)
    \/ \E s \in Sessions : BroadcastDone(s)
    \/ \E s \in Sessions : HandleBroadcast(s)
    \/ SaveDone

FifoSpec == FifoInit /\ [][FifoNext]_vars

\* A sequence of broadcast call numbers in the order of the calls.
InCallOrder(q) == \A i, j \in DOMAIN q : i < j => q[i] < q[j]

\* C28: the payloads a session has written to its client, and those still waiting in
\* its mailbox behind them, are in the order of the broadcast calls that sent them: no
\* client gets two payloads in the reverse of the order they were broadcast in.
C28_PerClientFifo ==
    \A s \in Sessions : InCallOrder(received[s] \o mailbox[s])

\* A client got the payloads of two broadcast calls made by two different sessions.
C28_Witness ==
    \E s \in Sessions :
        /\ Len(received[s]) >= 2
        /\ \A t \in Sessions : bcasts[t] = 1

\* ================================================================ wallet claims

\* One set_wallet_address command for every argument, with an address already stored
\* or none.
WalletSpecInit ==
    /\ ConnInit
    /\ max_connections = MaxLimit
    /\ app_handle = FALSE
    /\ LifeInit
    /\ db_pool = TRUE
    /\ TunRunning
    /\ ProbeIdle
    /\ CodecIdle
    /\ FifoIdle
    /\ MoreIdle
    /\ MsgInit
    /\ w_pc = "called"
    /\ w_arg \in Addresses
    /\ wallet_address \in {NoneOpt, Some(<<"0", "x">> \o Repeat("F", ADDRESS_LEN - 2))}
    /\ w_before = wallet_address
    /\ w_emitted = FALSE
    /\ w_result = None

WalletNext == \E emit_ok \in BOOLEAN : SetWalletAddress(emit_ok)

WalletSpec == WalletSpecInit /\ [][WalletNext]_vars

\* A SUI wallet address: 0x followed by exactly 64 hexadecimal characters.
IsWalletAddress(str) ==
    /\ Len(str) = 66
    /\ SubSeq(str, 1, 2) = <<"0", "x">>
    /\ \A i \in 3..66 : str[i] \in {"0", "a", "F"}

\* C29 as stated: the command stores its argument and returns Ok when the argument is
\* 0x followed by exactly 64 hexadecimal characters, and returns an error and leaves
\* the stored address alone for every other argument.
C29_AcceptsIffWalletAddress ==
    w_pc = "returned" =>
        IF IsWalletAddress(w_arg)
        THEN wallet_address = Some(w_arg) /\ w_result = "Ok"
        ELSE wallet_address = w_before /\ w_result # "Ok"

\* C29 amended: the command looks at its argument without the whitespace around it.
\* When that is 0x followed by exactly 64 hexadecimal characters it is stored, and Ok
\* is returned unless the event could not be emitted; every other argument is answered
\* with an error and leaves the stored address alone.
C29_AcceptsIffTrimmedWalletAddress ==
    w_pc = "returned" =>
        IF IsWalletAddress(trim(w_arg))
        THEN wallet_address = Some(trim(w_arg)) /\ (w_result = "Ok" <=> w_emitted)
        ELSE wallet_address = w_before /\ w_result # "Ok"

\* An address with a blank before and after it replaced the stored one.
C29_Witness ==
    /\ w_pc = "returned"
    /\ w_arg # trim(w_arg)
    /\ w_result = "Ok"
    /\ w_before # NoneOpt
    /\ wallet_address = Some(trim(w_arg))
    /\ wallet_address # w_before

\* ======================================================= tunnel restart budget claims

\* C30: a health check that finds the child of a successful restart still alive resets
\* restart_attempts to 0, so that exits with healthy checks between them never use up
\* the restart budget.
C30_HealthyCheckResets ==
    [][(mon_pc = "tick" /\ mon_pc' = "loop" /\ process = "alive" /\ restarts > 0)
          => restart_attempts' = 0]_vars

\* ============================================================ admission claims

\* C32. With sessions calling add_client concurrently, their steps interleaving between
\* the read of the counter and the increment and insert, neither the number of registered
\* clients nor the counter ever exceeds max_connections.
C32_NeverAboveMax ==
    /\ CONNECTIONS_COUNT <= max_connections
    /\ Cardinality(connections) <= max_connections

\* C33. set_max_connections always terminates, also when an app handle is configured:
\* a call that has stored the new maximum returns, with the max_connections mutex and
\* the global manager mutex free again, so that get_max_connections and get_manager
\* can be served afterwards.
C33_SetMaxTerminates ==
    (pc[Operator] \in {"set_emit", "set_emit_cmd"})
        ~> (pc[Operator] = "idle" /\ max_lock = None /\ global_lock = None)

\* C40. Lowering max_connections below the number of active clients evicts nobody: a
\* step that changes the threshold leaves the registry and the counter alone; an
\* add_client that read the threshold now in force admits only while the counter is below
\* it; and the threshold's mutex is always freed again, so that add_client can go on
\* evaluating the gate and admission resumes once enough clients have left.
C40_LoweringEvictsNobody ==
    /\ [][max_connections' # max_connections
            => UNCHANGED <<connections, CONNECTIONS_COUNT>>]_vars
    /\ [][\A s \in Sessions :
            (pc[s] = "add_check" /\ pc'[s] = "add_insert" /\ l_max[s] = max_connections)
                => CONNECTIONS_COUNT < max_connections]_vars
    /\ ((max_lock # None) ~> (max_lock = None))

\* ============================================================ history page claims

\* The limits and timestamps a client asks with.
PageLimits == {NoneOpt} \cup {Some(k) : k \in -1 .. 2}
PageBefores == {NoneOpt} \cup {Some(t) : t \in {1, MaxTs}}

PageSpecInit ==
    /\ ConnInit
    /\ max_connections = MaxLimit
    /\ app_handle = TRUE
    /\ LifeServing
    /\ TunRunning
    /\ ProbeIdle
    /\ CodecIdle
    /\ FifoIdle
    /\ WalletIdle
    /\ MsgInit
    /\ pg_pc = "asked"
    /\ pg_table \in SUBSET Timestamps
    /\ pg_limit \in PageLimits
    /\ pg_before \in PageBefores
    /\ pg_rows = <<>>
    /\ pg_reply = NoneOpt

PageNext == PageQuery \/ PageQueryFails \/ PageReply

PageSpec == PageSpecInit /\ [][PageNext]_vars

\* The k newest of a set of rows.
Newest(rows, k) == {t \in rows : Cardinality({u \in rows : u > t}) < k}

\* C38. When more than limit rows match a GetHistory request, the reply carries the
\* limit most recent rows older than before_timestamp, the oldest fetched row being the
\* one that is dropped, in ascending order of timestamp.
C38_NewestPageAscending ==
    (/\ pg_pc = "replied"
     /\ pg_limit # NoneOpt
     /\ pg_limit[1] >= 1
     /\ Cardinality(Matching(pg_table, pg_before)) > pg_limit[1])
        => LET messages == pg_reply[1][1] IN
           /\ Len(messages) = pg_limit[1]
           /\ {messages[i] : i \in 1..Len(messages)}
                = Newest(Matching(pg_table, pg_before), pg_limit[1])
           /\ \A i, j \in 1..Len(messages) : i < j => messages[i] < messages[j]

\* The limit persistence applies to a request: 50 for an absent or non-positive limit,
\* 1000 for a limit above 1000.
EffectiveLimit(limit) ==
    IF limit = NoneOpt THEN 50
    ELSE IF limit[1] <= 0 THEN 50
    ELSE IF limit[1] > 1000 THEN 1000
    ELSE limit[1]

\* C39. A GetHistory whose limit is absent, zero, negative or above 1000 is answered,
\* with no more messages than the effective limit of persistence (50, or 1000 for the
\* larger values), and with has_more true exactly when more matching messages exist
\* than those returned.  (last_reply holds <<limit, n, count, has_more>>.)
C39_ClampedLimitReply ==
    \A s \in Sessions :
        /\ state[s] # "Panicked"
        /\ (last_reply[s] # NoneOpt
              /\ (last_reply[s][1][1] = NoneOpt
                    \/ last_reply[s][1][1][1] <= 0 \/ last_reply[s][1][1][1] > 1000))
             => LET limit == last_reply[s][1][1]
                    n == last_reply[s][1][2]
                    count == last_reply[s][1][3]
                    more == last_reply[s][1][4]
                IN  /\ count <= EffectiveLimit(limit)
                    /\ more <=> n > count

\* ============================================================ start and stop races

\* C36. When persisting the new session fails during start-up (create_session fails or
\* there is no database pool), the start is aborted with nothing stale: the listener
\* handles, the runtime handle, host and ports and the current session id are cleared
\* and a status event with is_running = false is sent; and a start_server call is
\* answered "already running" only while a launcher thread is alive.
C36_SessionFailureLeavesNothing ==
    /\ [][\A r \in Runs :
            (run_pc[r] = "create" /\ run_pc'[r] = "dead")
                => /\ server_handle' = NoneOpt /\ runtime_handle' = NoneOpt /\ ~host'
                   /\ current_session_id' = NoneOpt
                   /\ last_event' # NoneOpt /\ last_event'[1] = FALSE]_vars
    /\ [][(ctl_pc = "idle" /\ ctl_pc' = "returned" /\ life_result' = "AlreadyRunning")
            => \E r \in Runs : run_pc[r] \notin {"unborn", "dead"}]_vars

\* start_server calls that come at any time, also while an earlier start has not yet
\* stored its listener handles; nobody calls stop_server.
RaceNext ==
    \/ StartServerSpawn
    \/ StartServerAlreadyRunning
    \/ \E r \in Runs : LaunchRuntime(r)
    \/ \E r \in Runs : LaunchRuntimeFails(r)
    \/ \E r \in Runs : BindListeners(r)
    \/ \E r \in Runs : BindFails(r)
    \/ \E r \in Runs : StoreHandles(r)
    \/ \E r \in Runs : StoreSessionId(r)
    \/ \E r \in Runs : CreateSessionOk(r)
    \/ \E r \in Runs : CreateSessionAborts(r)
    \/ \E r \in Runs : CleanupServerResources(r)
    \/ \E r \in Runs : TunnelStartOk(r)
    \/ \E r \in Runs : TunnelStartErr(r)
    \/ CommandReturns

RaceSpec == LifeSpecInit /\ [][RaceNext]_vars

\* C34. When a second start_server passes the already-running check before the first
\* start has stored its handles, at most one run holds the listening sockets, and that
\* run stays visible and stoppable: while it accepts connections the stored listener
\* handles, runtime handle, host and ports and session id are its own.
C34_LosingStartSparesWinner ==
    /\ Cardinality({r \in Runs : listeners[r] \in {"bound", "stop_queued", "accepting"}}) <= 1
    /\ \A w \in Runs :
         listeners[w] = "accepting"
             => /\ server_handle = Some(w) /\ runtime_handle = Some(w)
                /\ host
                /\ current_session_id = Some(w)

\* C35. While listeners are running a stop_server call shuts them down, also after a
\* stop_server that came during start-up: a call that finds the handles of accepting
\* listeners returns Ok with the stop task spawned for them, and a run that accepts
\* connections, that no stop_server call has set out to stop and for which no stop task
\* is under way is reported as running, its listener handles being stored.
C35_RunningServerStoppable ==
    /\ [][(/\ ctl_pc = "stop_branch" /\ ctl_pc' = "returned"
           /\ ctl_sh # NoneOpt /\ listeners[ctl_sh[1]] = "accepting")
            => /\ life_result' = "Ok"
               /\ \E rt \in Runs :
                     stop_task'[rt] = "pending" /\ stop_target'[rt] = ctl_sh[1]]_vars
    /\ [](\A w \in Runs :
            (/\ listeners[w] = "accepting" /\ ctl_pc = "idle" /\ w \notin stop_accepted
             /\ \A rt \in Runs : stop_task[rt] = "none" \/ stop_target[rt] # w)
                => server_handle = Some(w))

\* C37. After a stop_server call on a serving run the stored tunnel info is not that
\* run's any more, whatever its tunnel start task does afterwards, and once the run has
\* ended its cloudflared child is gone; and whenever the status would be reported with
\* tunnel_status Running, the tunnel info is not that of a run that was stopped.
C37_NoTunnelInfoAfterStop ==
    /\ \A r \in stop_accepted :
          /\ tunnel_info = NoneOpt \/ tunnel_info[1][2] # r
          /\ run_pc[r] = "dead" => child[r] # "alive"
    /\ TunnelStatus(server_handle, tunnel_info) = "Running"
          => tunnel_info[1][2] \notin stop_accepted

\* One start_tunnel call, the supervision of the tunnel it returns, and the background
\* reader of each child.
ReaderNext ==
    \/ StartNext
    \/ \E x \in Streams : ChildClosesStream(x)
    \/ \E x \in Streams : ChildWritesBadLine(x)
    \/ \E x \in Streams : ReaderLogsLine(x)
    \/ \E x \in Streams : ReaderBreaks(x)

ReaderSpec == StartSpecInit /\ [][ReaderNext]_vars

\* C31. Once a background reader has been spawned (after the URL was extracted, or by a
\* restart), a stream that the running child still holds open is still being read: the
\* reader has not left its loop because the other stream reached end-of-file or failed.
C31_ReaderDrainsBothStreams ==
    \A x \in Streams :
        (rd_task # "none" /\ ReaderChild = "alive" /\ rd_pipe[x] = "open")
            => rd_task = "reading"

=========================================================================
